---- MODULE Spec2Model ----
(***************************************************************************)
(* Synchronization-and-resilience layer of the swap aggregator backend:    *)
(*   TokenBucket / DistributedRateLimiter  (src/services/rate_limiter.rs)  *)
(*   RedisService get_json / set_json      (src/services/redis_cache.rs)   *)
(*   retry executor, staleness gate, sync  (src/modules/swap/crud.rs)      *)
(***************************************************************************)
EXTENDS Integers, Sequences, FiniteSets, TLC

VARIABLES
    now,            \* wall clock in seconds (SystemTime::now / Utc::now / NOW())
    ticks,          \* number of clock steps taken so far (bounds the run)
    ops,            \* number of calls made so far (bounds the run)
    overflowChecks, \* TRUE: build panics on integer overflow; FALSE: it wraps
    bucket,         \* SpecBucket: the TokenBucket value under test
    last,           \* SpecBucket: record of the last TokenBucket call
    store,          \* shared cache store: key -> None or [json, ttl, setAt]
    pc,             \* per caller: position inside try_acquire / get_wait_time
    req,            \* per caller: the call in progress [op, key, n]
    rd,             \* per caller: what get_json returned to this call
    loc,            \* per caller: the local bucket after try_consume
    res,            \* per caller: outcome of the last finished call
    burst,          \* per key (history): clock reading of the last consumption
                    \* written to the store and the tokens taken at that reading;
                    \* log of the grants returned: <<clock reading, tokens>>
    rt,             \* one get_rates request: position, query, retry counters,
                    \* the upstream outcomes seen so far, response and result
    db,             \* the tables: collection -> set of rows
    sy,             \* per caller: the sync_*_from_trocador call in progress
    chk,            \* (history) the last should_sync_* call and its answer
    hist,           \* (history) per collection: sync calls started, return
                    \* time of the last successful one, any sync begun since
    gp              \* one get_providers request of the controller: position,
                    \* query, what the staleness check and the sync gave, result

bktVars == <<bucket, last>>
limVars == <<pc, req, rd, loc, res, burst>>
ratesVars == <<rt>>
syncVars == <<db, sy, chk, hist>>
\* what the TokenBucket calls, the rate limiter, get_rates and the syncs
\* leave alone
handlerVars == <<gp>>
offBucket == <<store, limVars, ratesVars, syncVars, handlerVars>>
offLimiter == <<bktVars, ratesVars, syncVars, handlerVars>>
offRates == <<bktVars, limVars, syncVars, handlerVars>>
offSync == <<overflowChecks, store, bktVars, limVars, ratesVars, handlerVars>>
offHandler == <<overflowChecks, store, bktVars, limVars, ratesVars>>
vars == <<now, ticks, ops, overflowChecks, store, bktVars, limVars, ratesVars, syncVars,
          handlerVars>>

----------------------------------------------------------------------------
(* Bounds of the model *)

\* u32 is modelled with U32Bits bits and u64 with U64Bits bits
U32Bits == 14
U64Bits == 20
U32Mod == 2 ^ U32Bits
U64Mod == 2 ^ U64Bits

\* clock reading at the start of a run
T0 == 5
\* clock steps and calls in a run of Spec
MaxTicks == 1
MaxOps == 3
\* clock steps and calls in a run of SpecSeq
SeqMaxTicks == 1
SeqMaxOps == 3
\* clock steps and calls in a run of SpecBucket
BMaxTicks == 2
BMaxOps == 3
\* clock steps and calls in a run of SpecCache
CMaxTicks == 1
CMaxOps == 3
\* clock steps and sync calls in a run of SpecSync
SyMaxTicks == 2
SyMaxOps == 2
\* get_providers requests in a run of SpecProviders
GpMaxOps == 2

None == [none |-> TRUE]
Panic == [panic |-> TRUE]
NoCall == [op |-> "none"]

Min(a, b) == IF a <= b THEN a ELSE b

----------------------------------------------------------------------------
(* TokenBucket, src/services/rate_limiter.rs *)

\* TokenBucket::new
NewBucket(capacity, refill_rate, t) ==
    [tokens |-> capacity, last_refill |-> t,
     capacity |-> capacity, refill_rate |-> refill_rate]

\* Refill without the .min(self.capacity) clamp
RefillNoClamp(b, t, checks) ==
    IF t < b.last_refill /\ checks THEN Panic
    ELSE
      LET time_passed == (t - b.last_refill) % U64Mod
          product == time_passed * b.refill_rate
      IN  IF product >= U64Mod /\ checks THEN Panic
          ELSE
            LET tokens_to_add == (product % U64Mod) % U32Mod
                sum == b.tokens + tokens_to_add
            IN  IF tokens_to_add > 0
                THEN IF sum >= U32Mod /\ checks THEN Panic
                     ELSE [b EXCEPT !.tokens = sum % U32Mod, !.last_refill = t]
                ELSE b

\* TokenBucket::refill at clock reading t; Panic when an overflow check fires
Refill(b, t, checks) ==
    IF t < b.last_refill /\ checks THEN Panic
    ELSE
      LET time_passed == (t - b.last_refill) % U64Mod
          product == time_passed * b.refill_rate
      IN  IF product >= U64Mod /\ checks THEN Panic
          ELSE
            LET tokens_to_add == (product % U64Mod) % U32Mod
                sum == b.tokens + tokens_to_add
            IN  IF tokens_to_add > 0
                THEN IF sum >= U32Mod /\ checks THEN Panic
                     ELSE [b EXCEPT !.tokens = Min(sum % U32Mod, b.capacity),
                                    !.last_refill = t]
                ELSE b

\* Consume with > in place of >=
ConsumeStrict(r, n) ==
    IF r.tokens > n
    THEN [bucket |-> [r EXCEPT !.tokens = r.tokens - n], allowed |-> TRUE]
    ELSE [bucket |-> r, allowed |-> FALSE]

\* Consume that empties the bucket when it has to deny
ConsumeSaturating(r, n) ==
    IF r.tokens >= n
    THEN [bucket |-> [r EXCEPT !.tokens = r.tokens - n], allowed |-> TRUE]
    ELSE [bucket |-> [r EXCEPT !.tokens = 0], allowed |-> FALSE]

\* the consumption half of TokenBucket::try_consume, on the refilled bucket r
Consume(r, n) ==
    IF r.tokens >= n
    THEN [bucket |-> [r EXCEPT !.tokens = r.tokens - n], allowed |-> TRUE]
    ELSE [bucket |-> r, allowed |-> FALSE]

\* TokenBucket::try_consume: refill, then consume
TryConsume(b, n, t, checks) ==
    LET r == Refill(b, t, checks)
    IN  IF r = Panic THEN Panic ELSE Consume(r, n)

----------------------------------------------------------------------------
(* RedisService, src/services/redis_cache.rs *)

\* serde_json::to_string of a TokenBucket: the object's fields in order
ToJson(b) ==
    <<"tokens", b.tokens, "last_refill", b.last_refill,
      "capacity", b.capacity, "refill_rate", b.refill_rate>>

\* serde_json::from_str::<TokenBucket>
FromJson(j) ==
    [tokens |-> j[2], last_refill |-> j[4], capacity |-> j[6], refill_rate |-> j[8]]

\* RedisService::set_json with the serialised value: SET key json EX ttl
SetJson(st, key, json, ttl_seconds, t) ==
    [st EXCEPT ![key] = [json |-> json, ttl |-> ttl_seconds, setAt |-> t]]

\* GetRaw on a store that drops every entry one second after it was set
GetRawExpiresEarly(st, key, t) ==
    IF st[key] = None \/ t >= st[key].setAt + 1
    THEN None
    ELSE st[key].json

\* conn.get(key) at time t: an absent or expired key reads as None
GetRaw(st, key, t) ==
    IF st[key] = None \/ t >= st[key].setAt + st[key].ttl
    THEN None
    ELSE st[key].json

\* RedisService::get_json::<TokenBucket>
GetJson(st, key, t) ==
    IF GetRaw(st, key, t) = None THEN None ELSE FromJson(GetRaw(st, key, t))

----------------------------------------------------------------------------
(* get_rates data, src/modules/swap/crud.rs *)

\* an f64: NaN, or a finite value counted in hundredths
F(v) == [nan |-> FALSE, v |-> v]
NaN == [nan |-> TRUE, v |-> 0]

\* the decimal texts of the model and the f64 each one parses to
DecimalValue == ("0.5" :> 50) @@ ("1.5" :> 150) @@ ("2.5" :> 250)

\* str::parse::<f64>(): [ok, f]; "NaN" parses to the NaN value
ParseF64(text) ==
    IF text = "NaN" THEN [ok |-> TRUE, f |-> NaN]
    ELSE IF text \in DOMAIN DecimalValue THEN [ok |-> TRUE, f |-> F(DecimalValue[text])]
    ELSE [ok |-> FALSE, f |-> F(0)]

\* Result::unwrap_or(0.0)
UnwrapOrZero(parsed) == IF parsed.ok THEN parsed.f ELSE F(0)

\* Display of an f64, as format!("{}", query.amount) prints it
FmtF64(f) ==
    IF f.nan THEN "NaN"
    ELSE CHOOSE text \in DOMAIN DecimalValue : DecimalValue[text] = f.v

\* RatesQuery values of the model
Queries ==
    {[from |-> "btc", to |-> "eth", network_from |-> "Mainnet", network_to |-> "Mainnet",
      amount |-> F(50), rate_type |-> rtype] : rtype \in {"none", "fixed"}}
      \cup
    {[from |-> "btc", to |-> "xmr", network_from |-> "Mainnet", network_to |-> "Mainnet",
      amount |-> F(150), rate_type |-> "none"]}

\* format!("rates:{}:{}:{}:{}:{}", from, to, network_from, network_to, amount)
CacheKey(query) ==
    "rates:" \o query.from \o ":" \o query.to \o ":" \o query.network_from
        \o ":" \o query.network_to \o ":" \o FmtF64(query.amount)

RatesTtl == 30

\* no get_rates request in progress
NoRequest ==
    [pc |-> "idle", query |-> None, redis |-> FALSE, retries |-> 0, calls |-> 0,
     delay |-> 0, slept |-> <<>>, errs |-> <<>>, up |-> None, response |-> None,
     result |-> None, read |-> "none", seen |-> None, age |-> -1,
     written |-> "none"]

RatesIdle == rt = NoRequest

----------------------------------------------------------------------------
(* Reference data: the currencies and providers tables, src/modules/swap/crud.rs *)

Colls == {"currencies", "providers"}
SyProcs == {"s1", "s2"}

\* what the upstream lists: the fields of TrocadorCurrency and
\* TrocadorProvider that the upserts bind
TrocadorCurrency(ticker, network, name, image, memo, minimum, maximum) ==
    [ticker |-> ticker, network |-> network, name |-> name, image |-> image,
     memo |-> memo, minimum |-> minimum, maximum |-> maximum]
TrocadorProvider(name, rating, eta) ==
    [name |-> name, rating |-> rating, eta |-> eta]

CurrencyLists ==
    { <<>>,
      <<TrocadorCurrency("btc", "Mainnet", "Bitcoin", "btc.png", FALSE, 1, 100)>>,
      <<TrocadorCurrency("btc", "Mainnet", "Bitcoin", "btc.png", FALSE, 1, 100),
        TrocadorCurrency("xrp", "Mainnet", "XRP", "xrp.png", TRUE, 5, 500)>> }

ProviderLists ==
    { <<>>,
      <<TrocadorProvider("ChangeNOW", "B", 10)>>,
      <<TrocadorProvider("ChangeNOW", "B", 10),
        TrocadorProvider("Fixed Float", "A", 5)>> }

UpstreamLists(coll) == IF coll = "currencies" THEN CurrencyLists ELSE ProviderLists

\* str::to_lowercase / SQL LOWER on the provider names of the model
Lower == ("ChangeNOW" :> "changenow") @@ ("Fixed Float" :> "fixed float")
\* name.to_lowercase().replace(" ", "-")
Slug == ("ChangeNOW" :> "changenow") @@ ("Fixed Float" :> "fixed-float")

\* no sync call in progress; start and cursor: the clock and the table's
\* MAX(last_synced_at) when the call was entered
NoSync ==
    [pc |-> "idle", coll |-> "", items |-> <<>>, i |-> 0, synced_count |-> 0,
     existing |-> None, result |-> None, start |-> -1, cursor |-> None]

\* cur, prev: the last two syncs of the collection when both returned Ok one
\* after the other: upstream list, rows left, count, clock at call and return
NoHistory == [calls |-> 0, okAt |-> -1, since |-> FALSE, cur |-> None, prev |-> None]

\* no get_providers request in progress
NoHandler ==
    [pc |-> "idle", query |-> None, should_sync |-> "none", sync |-> "none",
     queried |-> "none", result |-> None]

\* a fresh deployment: both tables are empty
SyncIdle ==
    /\ gp = NoHandler
    /\ db = [c \in Colls |-> {}]
    /\ sy = [p \in SyProcs |-> NoSync]
    /\ chk = NoCall
    /\ hist = [c \in Colls |-> NoHistory]

----------------------------------------------------------------------------
(* DistributedRateLimiter, src/services/rate_limiter.rs *)

DefaultCapacity == 10
DefaultRefillRate == 1
BucketTtl == 3600

Procs == {"p1", "p2"}
Keys == {"trocador", "user"}
LAmounts == {1, 9}
SAmounts == {1, 10}
LSteps == {1, BucketTtl}
SSteps == {1, 10, BucketTtl}

\* format!("rate_limit:{}", key)
BucketKey(key) == "rate_limit:" \o key

\* keys, fetched values and ttl_seconds passed to get_or_set_json
AsideKeys == {"providers:list"}
Docs == {"v1", "v2"}
AsideTtls == {30, 60}
StoreKeys == {BucketKey(k) : k \in Keys} \cup {CacheKey(q) : q \in Queries} \cup AsideKeys

NoBurst == [at |-> -1, total |-> 0, log |-> <<>>]

Err == [err |-> TRUE]

StoreEmpty == store = [k \in StoreKeys |-> None]

LimiterIdle ==
    /\ pc = [p \in Procs |-> "idle"]
    /\ req = [p \in Procs |-> None]
    /\ rd = [p \in Procs |-> None]
    /\ loc = [p \in Procs |-> None]
    /\ res = [p \in Procs |-> None]
    /\ burst = [k \in Keys |-> NoBurst]

InitLimiter ==
    /\ now = T0
    /\ ticks = 0
    /\ ops = 0
    /\ overflowChecks \in BOOLEAN
    /\ bucket = None
    /\ last = NoCall
    /\ StoreEmpty
    /\ LimiterIdle
    /\ RatesIdle
    /\ SyncIdle

\* the shared clock advances
LTick(d, maxTicks) ==
    /\ ticks < maxTicks
    /\ now' = now + d
    /\ ticks' = ticks + 1
    /\ UNCHANGED <<ops, overflowChecks, store, limVars, offLimiter>>

\* a caller enters try_acquire(key, n)
AcquireCall(p, key, n, maxOps) ==
    /\ pc[p] = "idle"
    /\ ops < maxOps
    /\ ops' = ops + 1
    /\ pc' = [pc EXCEPT ![p] = "acq_read"]
    /\ req' = [req EXCEPT ![p] = [op |-> "try_acquire", key |-> key, n |-> n]]
    /\ rd' = [rd EXCEPT ![p] = None]
    /\ loc' = [loc EXCEPT ![p] = None]
    /\ res' = [res EXCEPT ![p] = None]
    /\ UNCHANGED <<now, ticks, overflowChecks, offLimiter, store, burst>>

\* try_acquire: self.redis.get_json(&bucket_key).await? succeeds
AcquireRead(p) ==
    /\ pc[p] = "acq_read"
    /\ rd' = [rd EXCEPT ![p] = GetJson(store, BucketKey(req[p].key), now)]
    /\ pc' = [pc EXCEPT ![p] = "acq_consume"]
    /\ UNCHANGED <<now, ticks, ops, overflowChecks, offLimiter, store, req, loc, res, burst>>

\* try_acquire: get_json fails and `?` returns the error
AcquireReadFail(p) ==
    /\ pc[p] = "acq_read"
    /\ res' = [res EXCEPT ![p] = [op |-> "try_acquire", key |-> req[p].key,
                                   n |-> req[p].n, value |-> "err"]]
    /\ pc' = [pc EXCEPT ![p] = "idle"]
    /\ UNCHANGED <<now, ticks, ops, overflowChecks, offLimiter, store, req, rd, loc, burst>>

\* the bucket try_acquire works on: the stored one, or a new default bucket
AcquireBucket(read, t) ==
    IF read = None THEN NewBucket(DefaultCapacity, DefaultRefillRate, t) ELSE read

\* try_acquire: default-initialise when absent, then bucket.try_consume(tokens)
AcquireConsume(p) ==
    LET key == req[p].key
        out == TryConsume(AcquireBucket(rd[p], now), req[p].n, now, overflowChecks)
    IN  /\ pc[p] = "acq_consume"
        /\ IF out = Panic
           THEN /\ res' = [res EXCEPT ![p] = [op |-> "try_acquire", key |-> key,
                                               n |-> req[p].n, value |-> "panic"]]
                /\ pc' = [pc EXCEPT ![p] = "idle"]
                /\ UNCHANGED <<loc, burst>>
           ELSE /\ loc' = [loc EXCEPT ![p] = [bucket |-> out.bucket,
                                               allowed |-> out.allowed,
                                               at |-> now,
                                               prev |-> burst[key]]]
                /\ pc' = [pc EXCEPT ![p] = "acq_write"]
                /\ UNCHANGED <<res, burst>>
        /\ UNCHANGED <<now, ticks, ops, overflowChecks, offLimiter, store, req, rd>>

\* history: the store now holds a state from which p's call took its tokens
Consumed(p) ==
    LET key == req[p].key
    IN  IF loc[p].allowed
        THEN [burst EXCEPT ![key] =
                [at |-> loc[p].at,
                 total |-> req[p].n +
                    (IF burst[key].at = loc[p].at THEN burst[key].total ELSE 0),
                 log |-> burst[key].log]]
        ELSE burst

\* history: p's call returns Ok(true): the grant of n tokens at the clock
\* reading of its try_consume is added to the log of the key
Granted(b, p) ==
    IF loc[p].allowed
    THEN [b EXCEPT ![req[p].key].log = Append(@, <<loc[p].at, req[p].n>>)]
    ELSE b

\* AcquireWrite that stores the bucket only when the acquisition was granted
AcquireWriteOnlyGranted(p) ==
    /\ pc[p] = "acq_write"
    /\ store' = IF loc[p].allowed
                THEN SetJson(store, BucketKey(req[p].key), ToJson(loc[p].bucket), BucketTtl, now)
                ELSE store
    /\ burst' = Granted(Consumed(p), p)
    /\ res' = [res EXCEPT ![p] = [op |-> "try_acquire", key |-> req[p].key,
                                   n |-> req[p].n,
                                   value |-> IF loc[p].allowed THEN "true" ELSE "false"]]
    /\ pc' = [pc EXCEPT ![p] = "idle"]
    /\ UNCHANGED <<now, ticks, ops, overflowChecks, offLimiter, req, rd, loc>>

\* try_acquire: set_json(&bucket_key, &bucket, 3600) succeeds, Ok(allowed)
AcquireWrite(p) ==
    /\ pc[p] = "acq_write"
    /\ store' = SetJson(store, BucketKey(req[p].key), ToJson(loc[p].bucket), BucketTtl, now)
    /\ burst' = Granted(Consumed(p), p)
    /\ res' = [res EXCEPT ![p] = [op |-> "try_acquire", key |-> req[p].key,
                                   n |-> req[p].n,
                                   value |-> IF loc[p].allowed THEN "true" ELSE "false"]]
    /\ pc' = [pc EXCEPT ![p] = "idle"]
    /\ UNCHANGED <<now, ticks, ops, overflowChecks, offLimiter, req, rd, loc>>

\* try_acquire: set_json fails and `?` returns the error; the SET itself may
\* or may not have reached the store
AcquireWriteFail(p, applied) ==
    /\ pc[p] = "acq_write"
    /\ store' = IF applied
                THEN SetJson(store, BucketKey(req[p].key), ToJson(loc[p].bucket), BucketTtl, now)
                ELSE store
    /\ burst' = IF applied THEN Consumed(p) ELSE burst
    /\ res' = [res EXCEPT ![p] = [op |-> "try_acquire", key |-> req[p].key,
                                   n |-> req[p].n, value |-> "err"]]
    /\ pc' = [pc EXCEPT ![p] = "idle"]
    /\ UNCHANGED <<now, ticks, ops, overflowChecks, offLimiter, req, rd, loc>>

\* a caller enters get_wait_time(key)
WaitCall(p, key, maxOps) ==
    /\ pc[p] = "idle"
    /\ ops < maxOps
    /\ ops' = ops + 1
    /\ pc' = [pc EXCEPT ![p] = "wait_read"]
    /\ req' = [req EXCEPT ![p] = [op |-> "get_wait_time", key |-> key, n |-> 0]]
    /\ rd' = [rd EXCEPT ![p] = None]
    /\ loc' = [loc EXCEPT ![p] = None]
    /\ res' = [res EXCEPT ![p] = None]
    /\ UNCHANGED <<now, ticks, overflowChecks, offLimiter, store, burst>>

\* get_wait_time: get_json succeeds
WaitRead(p) ==
    /\ pc[p] = "wait_read"
    /\ rd' = [rd EXCEPT ![p] = GetJson(store, BucketKey(req[p].key), now)]
    /\ pc' = [pc EXCEPT ![p] = "wait_compute"]
    /\ UNCHANGED <<now, ticks, ops, overflowChecks, offLimiter, store, req, loc, res, burst>>

\* get_wait_time: get_json fails and `?` returns the error
WaitReadFail(p) ==
    /\ pc[p] = "wait_read"
    /\ res' = [res EXCEPT ![p] = [op |-> "get_wait_time", key |-> req[p].key,
                                   n |-> 0, value |-> "err"]]
    /\ pc' = [pc EXCEPT ![p] = "idle"]
    /\ UNCHANGED <<now, ticks, ops, overflowChecks, offLimiter, store, req, rd, loc, burst>>

\* Duration of num/den seconds
Secs(num, den) == [num |-> num, den |-> den]

\* the value get_wait_time computes from what it read, at clock reading t
WaitTime(read, t, checks) ==
    IF read = None THEN Secs(0, 1)
    ELSE LET r == Refill(read, t, checks)
         IN  IF r = Panic THEN Panic
             ELSE IF r.tokens > 0 THEN Secs(0, 1)
             ELSE IF r.refill_rate = 0 THEN Panic
             ELSE Secs(1, r.refill_rate)

\* WaitCompute that also stores the refilled copy, as try_acquire does
WaitComputePersist(p) ==
    LET w == WaitTime(rd[p], now, overflowChecks)
    IN  /\ pc[p] = "wait_compute"
        /\ res' = [res EXCEPT ![p] = [op |-> "get_wait_time", key |-> req[p].key,
                                       n |-> 0,
                                       value |-> IF w = Panic THEN "panic" ELSE "ok",
                                       wait |-> w, at |-> now,
                                       prev |-> burst[req[p].key]]]
        /\ pc' = [pc EXCEPT ![p] = "idle"]
        /\ store' = IF rd[p] = None \/ Refill(rd[p], now, overflowChecks) = Panic
                    THEN store
                    ELSE SetJson(store, BucketKey(req[p].key),
                                 ToJson(Refill(rd[p], now, overflowChecks)), BucketTtl, now)
        /\ UNCHANGED <<now, ticks, ops, overflowChecks, offLimiter, req, rd, loc, burst>>

\* get_wait_time: refill the local copy and return the duration
WaitCompute(p) ==
    LET w == WaitTime(rd[p], now, overflowChecks)
    IN  /\ pc[p] = "wait_compute"
        /\ res' = [res EXCEPT ![p] = [op |-> "get_wait_time", key |-> req[p].key,
                                       n |-> 0,
                                       value |-> IF w = Panic THEN "panic" ELSE "ok",
                                       wait |-> w, at |-> now,
                                       prev |-> burst[req[p].key]]]
        /\ pc' = [pc EXCEPT ![p] = "idle"]
        /\ UNCHANGED <<now, ticks, ops, overflowChecks, offLimiter, store, req, rd, loc, burst>>

\* the steps of a try_acquire whose store operations succeed
AcquireStep(p, keys, amounts, maxOps) ==
    \/ \E k \in keys, n \in amounts : AcquireCall(p, k, n, maxOps)
    \/ AcquireRead(p)
    \/ AcquireConsume(p)
    \/ AcquireWrite(p)

\* the steps of a try_acquire whose store operations fail
AcquireFailStep(p) ==
    \/ AcquireReadFail(p)
    \/ \E applied \in BOOLEAN : AcquireWriteFail(p, applied)

\* every step of get_wait_time one caller can take
WaitStep(p, keys, maxOps) ==
    \/ \E k \in keys : WaitCall(p, k, maxOps)
    \/ WaitRead(p)
    \/ WaitReadFail(p)
    \/ WaitCompute(p)

Next ==
    \/ \E d \in LSteps : LTick(d, MaxTicks)
    \/ \E p \in Procs : AcquireStep(p, {"trocador"}, LAmounts, MaxOps)

\* several callers (server instances) running try_acquire on one key of the
\* shared store
Spec == InitLimiter /\ [][Next]_vars

NextSeq ==
    \/ \E d \in SSteps : LTick(d, SeqMaxTicks)
    \/ AcquireStep("p1", Keys, SAmounts, SeqMaxOps)
    \/ AcquireFailStep("p1")
    \/ WaitStep("p1", Keys, SeqMaxOps)

\* a single sequential caller of try_acquire and get_wait_time
SpecSeq == InitLimiter /\ [][NextSeq]_vars

\* both callers finished try_acquire(key, 1) having read the same stored
\* bucket, which held exactly one token and accrued none before they consumed
Raced(p, q) ==
    /\ p # q
    /\ pc[p] = "idle" /\ pc[q] = "idle"
    /\ res[p] # None /\ res[q] # None
    /\ req[p] = [op |-> "try_acquire", key |-> req[q].key, n |-> 1]
    /\ req[q] = req[p]
    /\ rd[p] # None /\ rd[q] = rd[p]
    /\ rd[p].tokens = 1
    /\ loc[p].at = rd[p].last_refill /\ loc[q].at = rd[p].last_refill

\* C3: two try_acquire(key, 1) calls that both read the stored bucket while
\* it held exactly one token both return true, and the bucket finally stored
\* is short of one token only (0 tokens), not of two.
C3_OverGrant ==
    \A p, q \in Procs :
        Raced(p, q) =>
            /\ res[p].value = "true"
            /\ res[q].value = "true"
            /\ store[BucketKey(req[p].key)] # None
            /\ FromJson(store[BucketKey(req[p].key)].json).tokens = rd[p].tokens - 1

\* the race happened: two grants out of a stored bucket of one token
C3_Witness ==
    \E p, q \in Procs :
        /\ Raced(p, q)
        /\ res[p].value = "true"
        /\ res[q].value = "true"
        /\ burst[req[p].key].total >= DefaultCapacity + 1

\* the state try_acquire must leave for a call that read `read`, consumed at
\* clock reading t and asked for n tokens
Expected(read, n, t, checks) ==
    TryConsume(IF read = None
               THEN [tokens |-> 10, last_refill |-> t, capacity |-> 10, refill_rate |-> 1]
               ELSE read,
               n, t, checks)

\* C4: every try_acquire(key, n) whose store operations succeed, granted or
\* denied, returns the result of try_consume on the stored bucket (a full
\* bucket of capacity 10 and rate 1 when the key is absent) and writes the
\* resulting bucket under the same key, and no other, with a TTL of 3600 s.
C4_WriteBack ==
    [][\A p \in Procs :
          (pc[p] = "acq_write" /\ pc'[p] = "idle" /\ res'[p].value \in {"true", "false"}) =>
             LET e == Expected(rd[p], req[p].n, loc[p].at, overflowChecks)
             IN  /\ res'[p].value = (IF e.allowed THEN "true" ELSE "false")
                 /\ store' = [store EXCEPT !["rate_limit:" \o req[p].key] =
                                [json |-> ToJson(e.bucket), ttl |-> 3600, setAt |-> now]]]_vars

\* a denied try_acquire has just written the bucket back with a fresh TTL,
\* while the other key holds an older entry
C4_Witness ==
    /\ pc["p1"] = "idle"
    /\ res["p1"] # None
    /\ res["p1"].op = "try_acquire"
    /\ res["p1"].value = "false"
    /\ store[BucketKey(res["p1"].key)] =
          [json |-> ToJson(loc["p1"].bucket), ttl |-> BucketTtl, setAt |-> now]
    /\ \E k \in Keys : k # res["p1"].key /\ store[BucketKey(k)] # None
                        /\ store[BucketKey(k)].setAt < now

\* the last finished call of the sequential caller
Done(op) ==
    /\ pc["p1"] = "idle"
    /\ res["p1"] # None
    /\ res["p1"].op = op
    /\ res["p1"].value \in {"true", "false", "ok"}

\* C5: for the default bucket and one sequential caller: once 10 tokens were
\* consumed at one clock reading, try_acquire(key, 1) at that reading returns
\* false and get_wait_time(key) returns 1 second; and a try_acquire(key, 10)
\* made 10 seconds or more after the last consumption returns true.
C5_DrainAndRecover ==
    /\ (Done("try_acquire") /\ res["p1"].n = 1
            /\ loc["p1"].prev.at = loc["p1"].at
            /\ loc["p1"].prev.total = DefaultCapacity)
          => res["p1"].value = "false"
    /\ (Done("get_wait_time")
            /\ res["p1"].prev.at = res["p1"].at
            /\ res["p1"].prev.total = DefaultCapacity)
          => res["p1"].wait = Secs(1, 1)
    /\ (Done("try_acquire") /\ res["p1"].n = 10
            /\ loc["p1"].at >= loc["p1"].prev.at + 10)
          => res["p1"].value = "true"

\* the drained bucket, still stored, was refilled by 10 elapsed seconds and
\* granted a 10-token request
C5_Witness ==
    /\ Done("try_acquire")
    /\ res["p1"].n = 10
    /\ res["p1"].value = "true"
    /\ rd["p1"] # None
    /\ rd["p1"].tokens = 0
    /\ loc["p1"].prev.total = DefaultCapacity
    /\ loc["p1"].at = loc["p1"].prev.at + 10

\* a step of get_wait_time taken by caller p: its entry, its read of the
\* store, or its return
WaitMoved(p) ==
    /\ pc'[p] # pc[p]
    /\ \/ pc'[p] = "wait_read"
       \/ pc[p] \in {"wait_read", "wait_compute"}

\* C19: no step of get_wait_time(key) changes the shared store (entries and
\* their TTLs stay as they are); a call whose read of the store succeeded
\* returns zero when the key was absent or when the bucket it read, refilled
\* at the current clock reading, holds at least one token, and 1 / refill_rate
\* seconds otherwise.
C19_WaitTimeReadOnly ==
    [][\A p \in Procs :
          WaitMoved(p) =>
             /\ store' = store
             /\ (pc[p] = "wait_compute" /\ res'[p].value = "ok") =>
                   res'[p].wait =
                      (IF rd[p] = None THEN Secs(0, 1)
                       ELSE IF Refill(rd[p], now, overflowChecks).tokens >= 1
                            THEN Secs(0, 1)
                            ELSE Secs(1, rd[p].refill_rate))]_vars

\* get_wait_time returned one second for a stored bucket that is drained,
\* and the entry is still the one the earlier try_acquire wrote
C19_Witness ==
    /\ Done("get_wait_time")
    /\ rd["p1"] # None
    /\ rd["p1"].tokens = 0
    /\ res["p1"].wait = Secs(1, 1)
    /\ store[BucketKey(res["p1"].key)] # None
    /\ store[BucketKey(res["p1"].key)].json = ToJson(rd["p1"])

\* caller p read its key as absent although the store still holds the
\* entry: the entry has expired
ReadExpiredBucket(p) ==
    /\ req[p] # None
    /\ rd[p] = None
    /\ store[BucketKey(req[p].key)] # None
    /\ GetRaw(store, BucketKey(req[p].key), now) = None

\* the bucket of the expired entry, as a read would have returned it had the
\* entry been kept
KeptBucket(p) == FromJson(store[BucketKey(req[p].key)].json)

\* C20: for the default configuration, a try_acquire or get_wait_time that
\* finds its entry expired computes the same result, and try_acquire the
\* same bucket to write back, as it would have computed from the entry had
\* it still been stored; every later result follows from the bucket written.
C20_ExpiryUnobservable ==
    [][\A p \in Procs :
          (ReadExpiredBucket(p) /\ pc'[p] # pc[p]) =>
             /\ pc[p] = "acq_consume" =>
                   LET kept == TryConsume(KeptBucket(p), req[p].n, now, overflowChecks)
                   IN  /\ kept # Panic
                       /\ pc'[p] = "acq_write"
                       /\ loc'[p].allowed = kept.allowed
                       /\ loc'[p].bucket = kept.bucket
             /\ pc[p] = "wait_compute" =>
                   res'[p].wait = WaitTime(KeptBucket(p), now, overflowChecks)]_vars

\* a bucket drained of its 10 tokens expired, and the next try_acquire of 10
\* tokens on the key was granted from a new default bucket
C20_Witness ==
    /\ Done("try_acquire")
    /\ rd["p1"] = None
    /\ res["p1"].n = DefaultCapacity
    /\ res["p1"].value = "true"
    /\ loc["p1"].prev.total = DefaultCapacity
    /\ loc["p1"].at >= loc["p1"].prev.at + BucketTtl

----------------------------------------------------------------------------
(* RedisService::get_or_set_json, src/services/redis_cache.rs *)

\* a caller enters get_or_set_json(key, ttl_seconds, fetch_fn)
GosCall(p, key, ttl_seconds, maxOps) ==
    /\ pc[p] = "idle"
    /\ ops < maxOps
    /\ ops' = ops + 1
    /\ pc' = [pc EXCEPT ![p] = "gos_read"]
    /\ req' = [req EXCEPT ![p] = [op |-> "get_or_set_json", key |-> key, n |-> ttl_seconds]]
    /\ rd' = [rd EXCEPT ![p] = None]
    /\ loc' = [loc EXCEPT ![p] = None]
    /\ res' = [res EXCEPT ![p] = None]
    /\ UNCHANGED <<now, ticks, overflowChecks, offLimiter, store, burst>>

\* what get_or_set_json returns: Ok(data), or Err from the cache or from
\* fetch_fn
GosReturn(p, value, data, cause) ==
    /\ res' = [res EXCEPT ![p] = [op |-> "get_or_set_json", key |-> req[p].key,
                                   n |-> req[p].n, value |-> value, data |-> data,
                                   cause |-> cause]]
    /\ pc' = [pc EXCEPT ![p] = "idle"]

\* get_json(key).await? gives Some(cached): return Ok(cached)
GosReadHit(p) ==
    /\ pc[p] = "gos_read"
    /\ GetRaw(store, req[p].key, now) # None
    /\ GosReturn(p, "ok", GetRaw(store, req[p].key, now).doc, "none")
    /\ UNCHANGED <<now, ticks, ops, overflowChecks, offLimiter, store, req, rd, loc, burst>>

\* get_json(key).await? gives None
GosReadMiss(p) ==
    /\ pc[p] = "gos_read"
    /\ GetRaw(store, req[p].key, now) = None
    /\ pc' = [pc EXCEPT ![p] = "gos_fetch"]
    /\ UNCHANGED <<now, ticks, ops, overflowChecks, offLimiter, store, req, rd, loc, res, burst>>

\* get_json fails and `?` returns the error: fetch_fn is not called
GosReadFail(p) ==
    /\ pc[p] = "gos_read"
    /\ GosReturn(p, "err", "", "cache")
    /\ UNCHANGED <<now, ticks, ops, overflowChecks, offLimiter, store, req, rd, loc, burst>>

\* fetch_fn().await? gives the data
GosFetchOk(p, data) ==
    /\ pc[p] = "gos_fetch"
    /\ loc' = [loc EXCEPT ![p] = [data |-> data]]
    /\ pc' = [pc EXCEPT ![p] = "gos_write"]
    /\ UNCHANGED <<now, ticks, ops, overflowChecks, offLimiter, store, req, rd, res, burst>>

\* fetch_fn fails and `?` returns its error
GosFetchErr(p) ==
    /\ pc[p] = "gos_fetch"
    /\ GosReturn(p, "err", "", "fetch")
    /\ UNCHANGED <<now, ticks, ops, overflowChecks, offLimiter, store, req, rd, loc, burst>>

\* set_json(key, &data, ttl_seconds) succeeds: Ok(data)
GosWrite(p) ==
    /\ pc[p] = "gos_write"
    /\ store' = SetJson(store, req[p].key, [doc |-> loc[p].data], req[p].n, now)
    /\ GosReturn(p, "ok", loc[p].data, "none")
    /\ UNCHANGED <<now, ticks, ops, overflowChecks, offLimiter, req, rd, loc, burst>>

\* set_json fails and `?` returns the error: the fetched data is dropped
GosWriteFail(p) ==
    /\ pc[p] = "gos_write"
    /\ GosReturn(p, "err", "", "cache")
    /\ UNCHANGED <<now, ticks, ops, overflowChecks, offLimiter, store, req, rd, loc, burst>>

\* every step of get_or_set_json one caller can take
GosStep(p, maxOps) ==
    \/ \E k \in AsideKeys, ttl \in AsideTtls : GosCall(p, k, ttl, maxOps)
    \/ GosReadHit(p)
    \/ GosReadMiss(p)
    \/ GosReadFail(p)
    \/ \E data \in Docs : GosFetchOk(p, data)
    \/ GosFetchErr(p)
    \/ GosWrite(p)
    \/ GosWriteFail(p)

NextCache ==
    \/ \E d \in {1} \cup AsideTtls : LTick(d, CMaxTicks)
    \/ AcquireStep("p1", {"trocador"}, {1}, CMaxOps)
    \/ AcquireFailStep("p1")
    \/ WaitStep("p1", {"trocador"}, CMaxOps)
    \/ GosStep("p1", CMaxOps)

\* one caller of the three cache-backed operations with a store that may fail
SpecCache == InitLimiter /\ [][NextCache]_vars

----------------------------------------------------------------------------
(* SwapCrud::get_rates and call_trocador_with_retry, src/modules/swap/crud.rs *)

MaxRetries == 3

\* clock steps and requests in a run of SpecRates
RMaxTicks == 1
RMaxOps == 1
RSteps == {1, RatesTtl}

\* error texts the upstream client can report (TrocadorError::to_string)
Msg429 == <<"H", "T", "T", "P", " ", "4", "2", "9">>
MsgRateLimit == <<"R", "a", "t", "e", " ", "l", "i", "m", "i", "t", " ", "e", "x", "c", "e", "e", "d", "e", "d">>
MsgNoKey == <<"T", "R", "O", "C", "A", "D", "O", "R", "_", "A", "P", "I", "_", "K", "E", "Y", " ", "n", "o", "t", " ", "s", "e", "t">>
MsgInvalid == <<"I", "n", "v", "a", "l", "i", "d", " ", "a", "d", "d", "r", "e", "s", "s">>
ErrMsgs == {Msg429, MsgInvalid}
\* what a failed get_json or set_json says
MsgStore == <<"C", "o", "n", "n", "e", "c", "t", "i", "o", "n", " ", "r", "e", "f", "u", "s", "e", "d">>

\* quote lists the upstream can answer with: <<provider, amount_to>>
Quote(provider, amount_to) == [provider |-> provider, amount_to |-> amount_to]
QuoteLists ==
    {<<Quote("a", "0.5"), Quote("b", "1.5")>>,
     <<Quote("a", "1.5"), Quote("b", "1.5"), Quote("c", "2.5")>>,
     <<Quote("a", "0.5"), Quote("b", "NaN"), Quote("c", "1.5")>>,
     <<Quote("a", "n/a"), Quote("b", "0.5")>>}

\* str::contains
Contains(text, pat) ==
    \E i \in 0..(Len(text) - Len(pat)) : SubSeq(text, i + 1, i + Len(pat)) = pat

\* a classification that retries on every error
IsRateLimitAlways(error_msg) == Len(error_msg) >= 0

\* is_rate_limit of call_trocador_with_retry
IsRateLimit(error_msg) ==
    \/ Contains(error_msg, <<"R", "a", "t", "e", " ", "l", "i", "m", "i", "t">>)
    \/ Contains(error_msg, <<"r", "a", "t", "e", " ", "l", "i", "m", "i", "t">>)
    \/ Contains(error_msg, <<"4", "2", "9">>)
    \/ Contains(error_msg, <<"T", "o", "o", " ", "M", "a", "n", "y", " ", "R", "e", "q", "u", "e", "s", "t", "s">>)

\* a backoff that doubles from 2 seconds
DelaySecsFromTwo(retries) == 2 ^ retries

\* 2u64.pow(retries - 1)
DelaySecs(retries) == 2 ^ (retries - 1)

\* a conversion that gives rate-limit errors a kind of their own
ExternalApiErrorTagged(msg) ==
    [kind |-> IF IsRateLimit(msg) THEN "RateLimited" ELSE "ExternalApiError", msg |-> msg]

\* SwapError::from(TrocadorError)
ExternalApiError(msg) == [kind |-> "ExternalApiError", msg |-> msg]

\* the closure of rates.sort_by: b.estimated_amount.partial_cmp(&a.estimated_amount)
\* .unwrap_or(Equal) is Less, i.e. a sorts before b
IsLess(a, b) ==
    /\ ~a.estimated_amount.nan
    /\ ~b.estimated_amount.nan
    /\ b.estimated_amount.v < a.estimated_amount.v

\* one insertion of the stable sort: x moves left past every element it is less than
RECURSIVE InsertTail(_, _)
InsertTail(sorted, x) ==
    IF sorted = <<>> THEN <<x>>
    ELSE IF IsLess(x, sorted[Len(sorted)])
         THEN Append(InsertTail(SubSeq(sorted, 1, Len(sorted) - 1), x), sorted[Len(sorted)])
         ELSE Append(sorted, x)

\* rates.sort_by(..): the stable insertion sort slices of this length get
RECURSIVE SortBy(_)
SortBy(rates) ==
    IF rates = <<>> THEN <<>>
    ELSE InsertTail(SortBy(SubSeq(rates, 1, Len(rates) - 1)), rates[Len(rates)])

\* the RateResponse built from one upstream quote (the fields that depend on
\* the quote's amount and on the query)
RateResponse(quote, query) ==
    [provider |-> quote.provider,
     estimated_amount |-> UnwrapOrZero(ParseF64(quote.amount_to)),
     rate_type |-> IF query.rate_type = "none" THEN "floating" ELSE query.rate_type]

\* steps 2 and 3 of get_rates: transform, sort, wrap into the RatesResponse
BuildResponse(quotes, query) ==
    [from |-> query.from, network_from |-> query.network_from,
     to |-> query.to, network_to |-> query.network_to,
     amount |-> query.amount,
     rates |-> SortBy([i \in 1..Len(quotes) |-> RateResponse(quotes[i], query)])]

JsonNull == [null |-> TRUE]

\* serde_json::to_string(&RatesResponse): a NaN is written as null
RatesToJson(response) ==
    [response EXCEPT !.rates =
        [i \in 1..Len(response.rates) |->
            [response.rates[i] EXCEPT !.estimated_amount =
                IF response.rates[i].estimated_amount.nan THEN JsonNull
                ELSE response.rates[i].estimated_amount]]]

\* serde_json::from_str::<RatesResponse>: null is no f64, the parse fails
RatesFromJson(json) ==
    IF \E i \in 1..Len(json.rates) : json.rates[i].estimated_amount = JsonNull
    THEN Err
    ELSE json

\* the store as an earlier get_rates(query) that fetched `quotes` left it at t
CachedBefore(query, quotes, t) ==
    SetJson([k \in StoreKeys |-> None], CacheKey(query),
            RatesToJson(BuildResponse(quotes, query)), RatesTtl, t)

\* get_rates has no integer arithmetic that can overflow: one build is enough
InitRates ==
    /\ now = T0
    /\ ticks = 0
    /\ ops = 0
    /\ overflowChecks = FALSE
    /\ bucket = None
    /\ last = NoCall
    /\ \/ StoreEmpty
       \/ \E query \in Queries, quotes \in QuoteLists :
             /\ query.rate_type = "none"
             /\ store = CachedBefore(query, quotes, T0)
    /\ LimiterIdle
    /\ RatesIdle
    /\ SyncIdle

\* time passes between or during requests
RTick(d) ==
    /\ ticks < RMaxTicks
    /\ now' = now + d
    /\ ticks' = ticks + 1
    /\ UNCHANGED <<ops, overflowChecks, store, rt, offRates>>

\* a caller enters get_rates(query); redis_service is Some or None
GrCall(query, redis) ==
    /\ rt.pc \in {"idle", "done"}
    /\ ops < RMaxOps
    /\ ops' = ops + 1
    /\ rt' = [NoRequest EXCEPT !.pc = "cache_read", !.query = query, !.redis = redis]
    /\ UNCHANGED <<now, ticks, overflowChecks, store, offRates>>

\* what service.get_json::<RatesResponse>(&cache_key) returns without a
\* connection error: None, the cached response, or Err for an unreadable entry
CacheLookup(st, query, t) ==
    IF GetRaw(st, CacheKey(query), t) = None THEN None
    ELSE RatesFromJson(GetRaw(st, CacheKey(query), t))

\* step 0 of get_rates: Ok(Some(cached)) => return Ok(cached)
GrCacheHit ==
    LET cached == CacheLookup(store, rt.query, now)
    IN  /\ rt.pc = "cache_read"
        /\ rt.redis
        /\ cached # None /\ cached # Err
        /\ rt' = [rt EXCEPT !.pc = "done", !.result = [ok |-> TRUE, value |-> cached],
                            !.read = "ok", !.seen = store[CacheKey(rt.query)],
                            !.age = now - store[CacheKey(rt.query)].setAt]
        /\ UNCHANGED <<now, ticks, ops, overflowChecks, store, offRates>>

\* after the cache gave nothing: TROCADOR_API_KEY is read, then the retry loop
\* (read, seen, age: history of the cache read: "none" without a cache
\* service, "err", or "ok" with the stored entry and the seconds since it
\* was written)
AfterCache(key_set, read) ==
    LET seen == IF read = "ok" THEN store[CacheKey(rt.query)] ELSE None
        age == IF seen = None THEN -1 ELSE now - seen.setAt
    IN  IF key_set
        THEN [rt EXCEPT !.pc = "call", !.read = read, !.seen = seen, !.age = age]
        ELSE [rt EXCEPT !.pc = "done", !.read = read, !.seen = seen, !.age = age,
                        !.result = [ok |-> FALSE,
                                    value |-> ExternalApiError(MsgNoKey)]]

\* step 0 of get_rates: no cache service, Ok(None), or an unreadable entry
GrCacheMiss(key_set) ==
    LET cached == IF rt.redis THEN CacheLookup(store, rt.query, now) ELSE None
    IN  /\ rt.pc = "cache_read"
        /\ cached = None \/ cached = Err
        /\ rt' = AfterCache(key_set, IF rt.redis THEN "ok" ELSE "none")
        /\ UNCHANGED <<now, ticks, ops, overflowChecks, store, offRates>>

\* step 0 of get_rates: the store is unreachable, Err(e) is logged
GrCacheReadFail(key_set) ==
    /\ rt.pc = "cache_read"
    /\ rt.redis
    /\ rt' = AfterCache(key_set, "err")
    /\ UNCHANGED <<now, ticks, ops, overflowChecks, store, offRates>>

\* call_trocador_with_retry: f().await returned Ok(result); get_rates then
\* transforms and sorts the quotes
GrInvokeOk(quotes) ==
    LET response == BuildResponse(quotes, rt.query)
    IN  /\ rt.pc = "call"
        /\ rt' = IF rt.redis
                 THEN [rt EXCEPT !.calls = rt.calls + 1, !.up = quotes,
                                 !.response = response, !.pc = "cache_write"]
                 ELSE [rt EXCEPT !.calls = rt.calls + 1, !.up = quotes,
                                 !.response = response, !.pc = "done",
                                 !.result = [ok |-> TRUE, value |-> response]]
        /\ UNCHANGED <<now, ticks, ops, overflowChecks, store, offRates>>

\* GrInvokeErr that retries whatever the error says
GrInvokeErrRetryAll(error_msg) ==
    /\ rt.pc = "call"
    /\ rt' = IF rt.retries < MaxRetries
             THEN [rt EXCEPT !.calls = rt.calls + 1,
                             !.errs = Append(rt.errs, error_msg),
                             !.retries = rt.retries + 1,
                             !.delay = DelaySecs(rt.retries + 1),
                             !.pc = "sleep"]
             ELSE [rt EXCEPT !.calls = rt.calls + 1,
                             !.errs = Append(rt.errs, error_msg),
                             !.pc = "done",
                             !.result = [ok |-> FALSE, value |-> ExternalApiError(error_msg)]]
    /\ UNCHANGED <<now, ticks, ops, overflowChecks, store, offRates>>

\* call_trocador_with_retry: f().await returned Err(e)
GrInvokeErr(error_msg) ==
    /\ rt.pc = "call"
    /\ rt' = IF IsRateLimit(error_msg) /\ rt.retries < MaxRetries
             THEN [rt EXCEPT !.calls = rt.calls + 1,
                             !.errs = Append(rt.errs, error_msg),
                             !.retries = rt.retries + 1,
                             !.delay = DelaySecs(rt.retries + 1),
                             !.pc = "sleep"]
             ELSE [rt EXCEPT !.calls = rt.calls + 1,
                             !.errs = Append(rt.errs, error_msg),
                             !.pc = "done",
                             !.result = [ok |-> FALSE, value |-> ExternalApiError(error_msg)]]
    /\ UNCHANGED <<now, ticks, ops, overflowChecks, store, offRates>>

\* call_trocador_with_retry: tokio::time::sleep(delay_secs) elapses
GrSleep ==
    /\ rt.pc = "sleep"
    /\ now' = now + rt.delay
    /\ rt' = [rt EXCEPT !.slept = Append(rt.slept, rt.delay), !.pc = "call"]
    /\ UNCHANGED <<ticks, ops, overflowChecks, store, offRates>>

\* step 4 of get_rates: set_json(&cache_key, &response, 30) succeeds
GrCacheWrite ==
    /\ rt.pc = "cache_write"
    /\ store' = SetJson(store, CacheKey(rt.query), RatesToJson(rt.response), RatesTtl, now)
    /\ rt' = [rt EXCEPT !.pc = "done", !.written = "ok",
                        !.result = [ok |-> TRUE, value |-> rt.response]]
    /\ UNCHANGED <<now, ticks, ops, overflowChecks, offRates>>

\* set_json fails and the request fails with it
GrCacheWriteFailPropagate ==
    /\ rt.pc = "cache_write"
    /\ rt' = [rt EXCEPT !.pc = "done", !.written = "err",
                        !.result = [ok |-> FALSE, value |-> ExternalApiError(MsgStore)]]
    /\ UNCHANGED <<now, ticks, ops, overflowChecks, store, offRates>>

\* step 4 of get_rates: set_json fails, the failure is logged
GrCacheWriteFail ==
    /\ rt.pc = "cache_write"
    /\ rt' = [rt EXCEPT !.pc = "done", !.written = "err",
                        !.result = [ok |-> TRUE, value |-> rt.response]]
    /\ UNCHANGED <<now, ticks, ops, overflowChecks, store, offRates>>

\* every step of a get_rates request in progress
GrStep ==
    \/ GrCacheHit
    \/ \E key_set \in BOOLEAN : GrCacheMiss(key_set)
    \/ \E key_set \in BOOLEAN : GrCacheReadFail(key_set)
    \/ \E quotes \in QuoteLists : GrInvokeOk(quotes)
    \/ \E error_msg \in ErrMsgs : GrInvokeErr(error_msg)
    \/ GrSleep
    \/ GrCacheWrite
    \/ GrCacheWriteFail

NextRates ==
    \/ \E d \in RSteps : RTick(d)
    \/ \E query \in Queries, redis \in BOOLEAN : GrCall(query, redis)
    \/ GrStep

\* one sequential caller of get_rates
SpecRates == InitRates /\ [][NextRates]_vars

\* requests for one pair that follow each other with no idle time in between
NextRetry ==
    \/ \E query \in {q \in Queries : q.to = "xmr"}, redis \in BOOLEAN : GrCall(query, redis)
    \/ GrStep

\* a request that was started runs on: every await of get_rates returns
SpecRatesFair == InitRates /\ [][NextRetry]_vars /\ WF_vars(GrStep)

RECURSIVE SumSeq(_)
SumSeq(q) == IF q = <<>> THEN 0 ELSE q[1] + SumSeq(Tail(q))

\* the retry loop of the request is running / has returned
InLoop == rt.pc \in {"call", "sleep"}
LoopReturned == rt.calls > 0 /\ rt.pc \in {"cache_write", "done"}

\* what the loop has done so far is within the retry policy
WithinPolicy ==
    /\ rt.calls <= 4
    /\ rt.calls <= Len(rt.slept) + 1
    /\ Len(rt.slept) <= 3
    /\ \A i \in 1..Len(rt.slept) : rt.slept[i] = <<1, 2, 4>>[i]
    /\ SumSeq(rt.slept) <= 7
    /\ rt.pc = "call" => Len(rt.slept) = rt.calls
    /\ LoopReturned =>
          \/ /\ rt.calls = Len(rt.errs) + 1
             /\ rt.response = BuildResponse(rt.up, rt.query)
             /\ rt.pc = "done" => rt.result = [ok |-> TRUE, value |-> rt.response]
          \/ /\ rt.calls = Len(rt.errs)
             /\ rt.pc = "done"
             /\ rt.result = [ok |-> FALSE, value |-> ExternalApiError(rt.errs[Len(rt.errs)])]

\* C6: call_trocador_with_retry invokes the operation at most 4 times, sleeps
\* exactly 1, 2 and 4 seconds before the 1st, 2nd and 3rd retry (7 seconds at
\* most in total), and whatever the outcomes of the operation the loop
\* returns, with the operation's success value or with an error.
C6_BoundedRetry ==
    /\ []WithinPolicy
    /\ InLoop ~> LoopReturned

\* the loop gave up after the initial call and three retries
C6_Witness ==
    /\ rt.pc = "done"
    /\ rt.calls = 4
    /\ rt.slept = <<1, 2, 4>>
    /\ ~rt.result.ok
    /\ now >= T0 + 7

\* C7: an error that is not classified as rate limiting ends the loop at
\* once: it is the last outcome of the operation, it is the error returned,
\* and the only sleeps are those after the rate-limit errors before it.
C7_TerminalErrorReturns ==
    \A i \in 1..Len(rt.errs) :
        ~IsRateLimit(rt.errs[i]) =>
            /\ i = Len(rt.errs)
            /\ rt.pc = "done"
            /\ rt.result = [ok |-> FALSE, value |-> ExternalApiError(rt.errs[i])]
            /\ rt.calls = i
            /\ rt.retries = i - 1
            /\ Len(rt.slept) = i - 1

\* a terminal error on the second attempt, with two retries still unused
C7_Witness ==
    /\ rt.pc = "done"
    /\ rt.errs = <<Msg429, MsgInvalid>>
    /\ rt.slept = <<1>>
    /\ rt.retries < MaxRetries
    /\ rt.result = [ok |-> FALSE, value |-> ExternalApiError(MsgInvalid)]

\* a >= b on f64: false as soon as one side is NaN
GreaterEq(a, b) == ~a.nan /\ ~b.nan /\ a.v >= b.v

\* the rates are in non-increasing order of estimated_amount
SortedDescending(rates) ==
    \A i \in 1..Len(rates) : \A j \in i..Len(rates) :
        GreaterEq(rates[i].estimated_amount, rates[j].estimated_amount)

\* C8: a get_rates request whose upstream call failed k <= 3 times with
\* rate-limit errors and then succeeded returns that success, having slept
\* 2^(i-1) seconds after the i-th failure, reports none of the failures, and
\* the quotes it returns are sorted by descending estimated amount.
C8_RetryThenSortedQuotes ==
    (rt.pc = "done" /\ rt.calls = Len(rt.errs) + 1) =>
        /\ Len(rt.errs) <= 3
        /\ \A i \in 1..Len(rt.errs) : IsRateLimit(rt.errs[i])
        /\ rt.slept = [i \in 1..Len(rt.errs) |-> 2 ^ (i - 1)]
        /\ rt.result.ok
        /\ rt.result.value = BuildResponse(rt.up, rt.query)
        /\ Len(rt.result.value.rates) = Len(rt.up)
        /\ SortedDescending(rt.result.value.rates)

\* the request read the cache, the store answered, and the entry for its key
\* was written less than 30 seconds before
ReadFresh ==
    /\ rt.read = "ok"
    /\ rt.seen # None
    /\ rt.age < 30

\* the request read the cache, the store answered, and there was no entry for
\* its key or one at least 30 seconds old
ReadExpired ==
    /\ rt.read = "ok"
    /\ rt.seen = None \/ rt.age >= 30

\* C13: a get_rates call made less than 30 seconds after a call with the same
\* five parameters stored its response does not invoke the upstream and
\* returns the stored value; a call that finds no entry, or one whose 30
\* seconds have passed, invokes the upstream again (given an API key).
C13_QuoteCacheTtl ==
    rt.pc = "done" =>
        /\ ReadFresh =>
              /\ rt.calls = 0
              /\ rt.result.ok
              /\ RatesToJson(rt.result.value) = rt.seen.json
        /\ ReadExpired =>
              \/ rt.calls >= 1
              \/ rt.result = [ok |-> FALSE, value |-> ExternalApiError(MsgNoKey)]

\* C14: in get_rates a failed cache read is a miss (the request goes on to
\* the API key and the upstream), a failed cache write still returns the
\* fetched response, and a request without a cache service runs the same
\* way; no finished request carries an error of the cache.
C14_CacheFailuresAbsorbed ==
    /\ (rt.read \in {"err", "none"} /\ rt.pc \notin {"idle", "cache_read"}) =>
           \/ rt.calls >= 1
           \/ rt.pc = "call"
           \/ rt.pc = "done" /\ rt.result = [ok |-> FALSE, value |-> ExternalApiError(MsgNoKey)]
    /\ (rt.pc = "done" /\ rt.calls = Len(rt.errs) + 1) =>
           /\ rt.written \in (IF rt.redis THEN {"ok", "err"} ELSE {"none"})
           /\ rt.result = [ok |-> TRUE, value |-> BuildResponse(rt.up, rt.query)]
    /\ (rt.pc = "done" /\ ~rt.result.ok) =>
           rt.result.value \in { ExternalApiError(m) : m \in ErrMsgs \cup {MsgNoKey} }

\* the cache failed on the read and on the write, and the quotes came back
C14_Witness ==
    /\ rt.pc = "done"
    /\ rt.read = "err"
    /\ rt.written = "err"
    /\ rt.calls = 1
    /\ rt.result = [ok |-> TRUE, value |-> BuildResponse(rt.up, rt.query)]

\* the ways to reorder n items
Orderings(n) == { f \in [1..n -> 1..n] : \A i, j \in 1..n : f[i] = f[j] => i = j }

\* a == b on f64: false as soon as one side is NaN
EqualF64(a, b) == ~a.nan /\ ~b.nan /\ a.v = b.v

\* C15: the rates returned on a cache miss are the transformed upstream
\* quotes, reordered so that estimated_amount never increases along the list,
\* with quotes of equal estimated_amount left in their upstream order.
C15_SortedStablePermutation ==
    (rt.pc = "done" /\ rt.calls = Len(rt.errs) + 1) =>
        LET rates == rt.result.value.rates
            n == Len(rt.up)
        IN  /\ Len(rates) = n
            /\ SortedDescending(rates)
            /\ \E f \in Orderings(n) :
                  /\ \A i \in 1..n : rates[i] = RateResponse(rt.up[f[i]], rt.query)
                  /\ \A i, j \in 1..n :
                        (i < j /\ EqualF64(rates[i].estimated_amount,
                                           rates[j].estimated_amount)) => f[i] < f[j]

----------------------------------------------------------------------------
(* Staleness check and sync, src/modules/swap/crud.rs *)

\* clock steps of SpecSync: half a minute, five minutes
SySteps == {30, 300}

\* minutes of the staleness window
StaleMinutes == 5

MsgDb == <<"p", "o", "o", "l", " ", "t", "i", "m", "e", "d", " ", "o", "u", "t">>
MsgUpstream == <<"H", "T", "T", "P", " ", "5", "0", "3">>

\* SwapError::DatabaseError(e.to_string())
DatabaseError(msg) == [kind |-> "DatabaseError", msg |-> msg]

\* chrono::Duration::num_minutes: whole minutes, truncated toward zero
NumMinutes(secs) == IF secs >= 0 THEN secs \div 60 ELSE -((-secs) \div 60)

\* SELECT MAX(last_synced_at) FROM <table>: NULL when the table has no row
MaxLastSynced(rows) ==
    IF rows = {} THEN None
    ELSE [at |-> CHOOSE m \in {r.last_synced_at : r \in rows} :
                     \A r \in rows : r.last_synced_at <= m]

\* should_sync_currencies / should_sync_providers, the query having succeeded
ShouldSync(rows, t) ==
    LET result == MaxLastSynced(rows)
    IN  IF result = None THEN TRUE
        ELSE NumMinutes(t - result.at) > StaleMinutes

\* REPLACE INTO: the row with the key is deleted and the new one inserted
UpsertCurrencyReplace(rows, c, t) ==
    { r \in rows : ~(r.symbol = c.ticker /\ r.network = c.network) }
      \cup { [symbol |-> c.ticker, name |-> c.name, network |-> c.network,
               is_active |-> TRUE, logo_url |-> c.image,
               requires_extra_id |-> c.memo, min_amount |-> c.minimum,
               max_amount |-> c.maximum, last_synced_at |-> t] }

\* a plain INSERT on a table with no unique key
UpsertCurrencyInsertOnly(rows, c, t) ==
    rows \cup { [symbol |-> c.ticker, name |-> c.name, network |-> c.network,
                 is_active |-> TRUE, logo_url |-> c.image,
                 requires_extra_id |-> c.memo, min_amount |-> c.minimum,
                 max_amount |-> c.maximum, last_synced_at |-> t] }

\* INSERT ... ON DUPLICATE KEY UPDATE on currencies, whose unique key is
\* (symbol, network); NOW() reads t
UpsertCurrency(rows, c, t) ==
    IF \E r \in rows : r.symbol = c.ticker /\ r.network = c.network
    THEN { IF r.symbol = c.ticker /\ r.network = c.network
           THEN [r EXCEPT !.name = c.name, !.logo_url = c.image,
                          !.min_amount = c.minimum, !.max_amount = c.maximum,
                          !.last_synced_at = t]
           ELSE r : r \in rows }
    ELSE rows \cup { [symbol |-> c.ticker, name |-> c.name, network |-> c.network,
                      is_active |-> TRUE, logo_url |-> c.image,
                      requires_extra_id |-> c.memo, min_amount |-> c.minimum,
                      max_amount |-> c.maximum, last_synced_at |-> t] }

\* SELECT id FROM providers WHERE LOWER(name) = LOWER(?) LIMIT 1
FindProvider(rows, c) ==
    IF \E r \in rows : Lower[r.name] = Lower[c.name]
    THEN [id |-> (CHOOSE r \in rows : Lower[r.name] = Lower[c.name]).id]
    ELSE None

\* UPDATE providers SET ... WHERE id = existing_id
UpdateProvider(rows, c, existing_id, t) ==
    { IF r.id = existing_id
      THEN [r EXCEPT !.name = c.name, !.slug = Slug[c.name], !.kyc_rating = c.rating,
                     !.eta_minutes = c.eta, !.last_synced_at = t]
      ELSE r : r \in rows }

\* INSERT INTO providers (id, ...) with id = slug
InsertProvider(rows, c, t) ==
    rows \cup { [id |-> Slug[c.name], name |-> c.name, slug |-> Slug[c.name],
                 is_active |-> TRUE, kyc_rating |-> c.rating, eta_minutes |-> c.eta,
                 last_synced_at |-> t] }

\* time passes
SyTick(d) ==
    /\ ticks < SyMaxTicks
    /\ now' = now + d
    /\ ticks' = ticks + 1
    /\ UNCHANGED <<ops, syncVars, offSync>>

\* a caller that is not inside a sync calls should_sync_<coll>(): the query
\* runs and the function answers
ShouldSyncCall(p, coll) ==
    /\ sy[p].pc \in {"idle", "done"}
    /\ chk' = [op |-> "should_sync", coll |-> coll, at |-> now,
               cursor |-> MaxLastSynced(db[coll]),
               result |-> IF ShouldSync(db[coll], now) THEN "true" ELSE "false"]
    /\ UNCHANGED <<now, ticks, ops, db, sy, hist, offSync>>

\* should_sync_<coll>(): the query fails, Err(DatabaseError)
ShouldSyncFail(p, coll) ==
    /\ sy[p].pc \in {"idle", "done"}
    /\ chk' = [op |-> "should_sync", coll |-> coll, at |-> now,
               cursor |-> MaxLastSynced(db[coll]), result |-> "err"]
    /\ UNCHANGED <<now, ticks, ops, db, sy, hist, offSync>>

\* sync_<coll>_from_trocador is entered
StartSync(p, coll) ==
    /\ sy' = [sy EXCEPT ![p] = [NoSync EXCEPT !.pc = "fetch", !.coll = coll,
                                               !.start = now,
                                               !.cursor = MaxLastSynced(db[coll])]]
    /\ hist' = [hist EXCEPT ![coll].calls = @ + 1, ![coll].since = TRUE]

\* a caller enters sync_<coll>_from_trocador
SyCall(p, coll) ==
    /\ sy[p].pc \in {"idle", "done"}
    /\ ops < SyMaxOps
    /\ ops' = ops + 1
    /\ StartSync(p, coll)
    /\ UNCHANGED <<now, ticks, db, chk, offSync>>

\* the sync returns Ok(synced_count)
SyReturnOk(p, count) ==
    /\ sy' = [sy EXCEPT ![p].pc = "done", ![p].synced_count = count,
                        ![p].result = [ok |-> TRUE, count |-> count]]
    /\ hist' = [hist EXCEPT ![sy[p].coll].okAt = now,
                            ![sy[p].coll].since =
                                \E q \in SyProcs \ {p} :
                                    /\ sy[q].coll = sy[p].coll
                                    /\ sy[q].pc \notin {"idle", "done"},
                            ![sy[p].coll].prev = hist[sy[p].coll].cur,
                            ![sy[p].coll].cur =
                                [items |-> sy[p].items, rows |-> db'[sy[p].coll],
                                 count |-> count, start |-> sy[p].start,
                                 end |-> now]]

\* the sync returns Err(error) through `?`
SyReturnErr(p, error) ==
    /\ sy' = [sy EXCEPT ![p].pc = "done", ![p].result = [ok |-> FALSE, error |-> error]]
    /\ hist' = [hist EXCEPT ![sy[p].coll].cur = None, ![sy[p].coll].prev = None]

\* trocador_client.get_currencies() / get_providers() answers with a list;
\* an empty list ends the loop at once
SyFetchOk(p, items) ==
    /\ sy[p].pc = "fetch"
    /\ items \in UpstreamLists(sy[p].coll)
    /\ UNCHANGED <<now, ticks, ops, db, chk, offSync>>
    /\ IF items = <<>>
       THEN SyReturnOk(p, 0)
       ELSE /\ sy' = [sy EXCEPT ![p].items = items, ![p].i = 1,
                                ![p].pc = IF sy[p].coll = "currencies"
                                          THEN "upsert" ELSE "lookup"]
            /\ UNCHANGED hist

\* the upstream call fails: `?` converts the TrocadorError
SyFetchErr(p, error_msg) ==
    /\ sy[p].pc = "fetch"
    /\ SyReturnErr(p, ExternalApiError(error_msg))
    /\ UNCHANGED <<now, ticks, ops, db, chk, offSync>>

\* one item is done: the loop goes on, or the sync returns the count
SyItemDone(p) ==
    IF sy[p].i = Len(sy[p].items)
    THEN SyReturnOk(p, sy[p].synced_count + 1)
    ELSE /\ sy' = [sy EXCEPT ![p].i = @ + 1, ![p].synced_count = @ + 1,
                             ![p].existing = None,
                             ![p].pc = IF sy[p].coll = "currencies"
                                       THEN "upsert" ELSE "lookup"]
         /\ UNCHANGED hist

\* upsert_currency_from_trocador succeeds
SyUpsertCurrency(p) ==
    /\ sy[p].pc = "upsert"
    /\ db' = [db EXCEPT !["currencies"] = UpsertCurrency(@, sy[p].items[sy[p].i], now)]
    /\ SyItemDone(p)
    /\ UNCHANGED <<now, ticks, ops, chk, offSync>>

\* upsert_provider_from_trocador: the lookup by name succeeds
SyProviderLookup(p) ==
    /\ sy[p].pc = "lookup"
    /\ sy' = [sy EXCEPT ![p].existing = FindProvider(db["providers"], sy[p].items[sy[p].i]),
                        ![p].pc = "write"]
    /\ UNCHANGED <<now, ticks, ops, db, chk, hist, offSync>>

\* upsert_provider_from_trocador: the UPDATE, or the INSERT of a new id,
\* succeeds
SyProviderWrite(p) ==
    LET c == sy[p].items[sy[p].i]
    IN  /\ sy[p].pc = "write"
        /\ IF sy[p].existing # None
           THEN db' = [db EXCEPT !["providers"] = UpdateProvider(@, c, sy[p].existing.id, now)]
           ELSE /\ \A r \in db["providers"] : r.id # Slug[c.name]
                /\ db' = [db EXCEPT !["providers"] = InsertProvider(@, c, now)]
        /\ SyItemDone(p)
        /\ UNCHANGED <<now, ticks, ops, chk, offSync>>

\* a failed upsert that ends the sync with the count reached so far
SyUpsertFailCounted(p) ==
    /\ sy[p].pc \in {"upsert", "lookup", "write"}
    /\ UNCHANGED <<now, ticks, ops, db, chk, offSync>>
    /\ SyReturnOk(p, sy[p].synced_count)

\* a statement of the upsert fails: nothing is written, the sync returns
\* Err(DatabaseError) through `?`
SyUpsertFail(p) ==
    /\ sy[p].pc \in {"upsert", "lookup", "write"}
    /\ SyReturnErr(p, DatabaseError(MsgDb))
    /\ UNCHANGED <<now, ticks, ops, db, chk, offSync>>

\* every step of a sync in progress
SyRun(p) ==
    \/ \E items \in CurrencyLists \cup ProviderLists : SyFetchOk(p, items)
    \/ SyFetchErr(p, MsgUpstream)
    \/ SyUpsertCurrency(p)
    \/ SyProviderLookup(p)
    \/ SyProviderWrite(p)
    \/ SyUpsertFail(p)

\* a caller starts a sync or goes on with the one in progress
SyStep(p) ==
    \/ \E coll \in Colls : SyCall(p, coll)
    \/ SyRun(p)

NextSync ==
    \/ \E d \in SySteps : SyTick(d)
    \/ \E coll \in Colls : ShouldSyncCall("s1", coll)
    \/ \E coll \in Colls : ShouldSyncFail("s1", coll)
    \/ SyStep("s1")

\* a fresh deployment; the syncs have no integer arithmetic that can overflow
InitSync ==
    /\ now = T0
    /\ ticks = 0
    /\ ops = 0
    /\ overflowChecks = FALSE
    /\ bucket = None
    /\ last = NoCall
    /\ StoreEmpty
    /\ LimiterIdle
    /\ RatesIdle
    /\ SyncIdle

\* one caller that checks staleness and syncs, in any order
SpecSync == InitSync /\ [][NextSync]_vars

\* C9: should_sync_currencies and should_sync_providers answer true when the
\* table has no last-sync timestamp, and otherwise answer true exactly when
\* more than 5 minutes (300 seconds) have passed since max(last_synced_at).
C9_StaleIffOlderThanFiveMinutes ==
    (chk.op = "should_sync" /\ chk.result # "err") =>
        IF chk.cursor = None
        THEN chk.result = "true"
        ELSE (chk.result = "true") <=> (chk.at - chk.cursor.at > 5 * 60)

\* C10: for each collection the staleness check is true before any sync,
\* false in the state where a sync has just returned Ok (whatever the
\* upstream list was), and true once more than 5 minutes have passed since
\* that return with no sync begun in between.
C10_StalenessOverARun ==
    \A coll \in Colls :
        /\ hist[coll].calls = 0 => ShouldSync(db[coll], now)
        /\ (hist[coll].okAt = now /\ ~hist[coll].since) => ~ShouldSync(db[coll], now)
        /\ (hist[coll].okAt >= 0 /\ ~hist[coll].since /\ now - hist[coll].okAt > 5 * 60)
               => ShouldSync(db[coll], now)

\* upsert_currency_from_trocador / upsert_provider_from_trocador run to the
\* end with no other statement in between
UpsertRow(coll, rows, c, t) ==
    IF coll = "currencies" THEN UpsertCurrency(rows, c, t)
    ELSE IF FindProvider(rows, c) # None
         THEN UpdateProvider(rows, c, FindProvider(rows, c).id, t)
         ELSE InsertProvider(rows, c, t)

\* the rows a sync of `items` that ran alone at t leaves
RECURSIVE SyncRows(_, _, _, _)
SyncRows(coll, rows, items, t) ==
    IF items = <<>> THEN rows
    ELSE SyncRows(coll, UpsertRow(coll, rows, Head(items), t), Tail(items), t)

\* what an earlier deployment left: nothing, or the rows of one sync of the
\* two-item lists
Seeds ==
    { f \in [Colls -> CurrencyLists \cup ProviderLists] :
        /\ \A c \in Colls : f[c] \in UpstreamLists(c)
        /\ Len(f["currencies"]) = Len(f["providers"])
        /\ Len(f["currencies"]) # 1 }

\* the tables and the history after the syncs of `seed` returned at t
SyncedBefore(seed, t) ==
    /\ db = [c \in Colls |-> SyncRows(c, {}, seed[c], t)]
    /\ hist = [c \in Colls |->
                 IF seed[c] = <<>> THEN NoHistory
                 ELSE [calls |-> 1, okAt |-> t, since |-> FALSE, prev |-> None,
                       cur |-> [items |-> seed[c],
                                rows |-> SyncRows(c, {}, seed[c], t),
                                count |-> Len(seed[c]), start |-> t, end |-> t]]]

\* a deployment that is fresh or has synced before
InitSyncRuns ==
    /\ now = T0
    /\ ticks = 0
    /\ ops = 0
    /\ overflowChecks = FALSE
    /\ bucket = None
    /\ last = NoCall
    /\ StoreEmpty
    /\ LimiterIdle
    /\ RatesIdle
    /\ sy = [p \in SyProcs |-> NoSync]
    /\ chk = NoCall
    /\ gp = NoHandler
    /\ \E seed \in Seeds : SyncedBefore(seed, T0)

NextSyncRuns ==
    \/ \E d \in SySteps : SyTick(d)
    \/ SyStep("s1")

\* one caller that runs syncs one after the other
SpecSyncRuns == InitSyncRuns /\ [][NextSyncRuns]_vars

\* the columns of a row other than last_synced_at
Content(rows) == { [r EXCEPT !.last_synced_at = 0] : r \in rows }

\* the row is the one an upsert of an item of the list writes
Listed(coll, items, r) ==
    \E i \in 1..Len(items) :
        IF coll = "currencies"
        THEN r.symbol = items[i].ticker /\ r.network = items[i].network
        ELSE Lower[r.name] = Lower[items[i].name]

\* no two rows of the table stand for the same currency or provider
NoDuplicates(coll, rows) ==
    \A r1, r2 \in rows :
        (IF coll = "currencies"
         THEN r1.symbol = r2.symbol /\ r1.network = r2.network
         ELSE r1.id = r2.id \/ Lower[r1.name] = Lower[r2.name]) => r1 = r2

\* two syncs of the collection returned Ok one after the other with the same
\* upstream list
RanTwice(coll) ==
    /\ hist[coll].prev # None
    /\ hist[coll].cur # None
    /\ hist[coll].prev.items = hist[coll].cur.items

\* what the second of two identical syncs leaves, whatever the stamps
SameStore(coll) ==
    /\ Content(hist[coll].cur.rows) = Content(hist[coll].prev.rows)
    /\ Cardinality(hist[coll].cur.rows) = Cardinality(hist[coll].prev.rows)
    /\ NoDuplicates(coll, hist[coll].cur.rows)
    /\ hist[coll].cur.count = hist[coll].prev.count
    /\ hist[coll].cur.count = Len(hist[coll].cur.items)

\* the row was stamped during the second sync
StampedInSecondRun(coll, r) ==
    /\ hist[coll].cur.start <= r.last_synced_at
    /\ r.last_synced_at <= hist[coll].cur.end

\* C11 (as stated): after two syncs in a row with identical upstream data the
\* store holds the rows and field values the first sync left, no duplicates,
\* the second sync returned the same count, and every row of the table has
\* its last_synced_at set during the second sync.
C11_ResyncStampsEveryRow ==
    \A coll \in Colls :
        RanTwice(coll) =>
            /\ SameStore(coll)
            /\ \A r \in hist[coll].cur.rows : StampedInSecondRun(coll, r)

\* C11 (amended): as above, but the rows stamped by the second sync are the
\* rows of the items the upstream lists; a row the upstream no longer lists
\* is kept as the first sync left it, stamp included.
C11_ResyncIdempotent ==
    \A coll \in Colls :
        RanTwice(coll) =>
            /\ SameStore(coll)
            /\ \A r \in hist[coll].cur.rows :
                  IF Listed(coll, hist[coll].cur.items, r)
                  THEN StampedInSecondRun(coll, r)
                  ELSE r \in hist[coll].prev.rows

\* two items synced twice, the second sync later than the first
C11_Witness ==
    \E coll \in Colls :
        /\ RanTwice(coll)
        /\ Len(hist[coll].cur.items) = 2
        /\ hist[coll].cur.start > hist[coll].prev.end
        /\ \A r \in hist[coll].cur.rows : r.last_synced_at >= hist[coll].cur.start

----------------------------------------------------------------------------
(* get_providers, src/modules/swap/controller.rs *)

\* ProvidersQuery: the rating filter is an Option
ProvidersQueries == { [rating |-> None], [rating |-> [some |-> "A"]] }

\* crud.get_providers(query): the active rows that pass the filter (the
\* ORDER BY of the statement is left out: rows are compared as a set)
SelectProviders(rows, query) ==
    { r \in rows : /\ r.is_active
                   /\ query.rating # None => r.kyc_rating = query.rating.some }

\* a request enters the handler
GpCall(query) ==
    /\ gp.pc \in {"idle", "done"}
    /\ ops < GpMaxOps
    /\ ops' = ops + 1
    /\ gp' = [NoHandler EXCEPT !.pc = "should", !.query = query]
    /\ UNCHANGED <<now, ticks, syncVars, offHandler>>

\* after crud.should_sync_providers().await.unwrap_or(true)
AfterShould(should_sync) ==
    [gp EXCEPT !.should_sync = IF should_sync THEN "true" ELSE "false",
               !.pc = IF should_sync THEN "key" ELSE "query"]

\* should_sync_providers() answers Ok(b)
GpShouldOk ==
    /\ gp.pc = "should"
    /\ gp' = AfterShould(ShouldSync(db["providers"], now))
    /\ UNCHANGED <<now, ticks, ops, syncVars, offHandler>>

\* should_sync_providers() answers Err: unwrap_or(true)
GpShouldFail ==
    /\ gp.pc = "should"
    /\ gp' = AfterShould(TRUE)
    /\ UNCHANGED <<now, ticks, ops, syncVars, offHandler>>

\* TROCADOR_API_KEY is unset or empty: no sync
GpNoKey ==
    /\ gp.pc = "key"
    /\ gp' = [gp EXCEPT !.pc = "query", !.sync = "skipped"]
    /\ UNCHANGED <<now, ticks, ops, syncVars, offHandler>>

\* the handler enters crud.sync_providers_from_trocador
GpSyncStart ==
    /\ gp.pc = "key"
    /\ gp' = [gp EXCEPT !.pc = "sync"]
    /\ StartSync("s1", "providers")
    /\ UNCHANGED <<now, ticks, ops, db, chk, offHandler>>

\* a sync that fails ends the request with its error
GpSyncDonePropagate ==
    /\ gp.pc = "sync"
    /\ sy["s1"].pc = "done"
    /\ gp' = IF sy["s1"].result.ok
             THEN [gp EXCEPT !.pc = "query", !.sync = "ok"]
             ELSE [gp EXCEPT !.pc = "done", !.sync = "err",
                             !.result = [ok |-> FALSE, error |-> sy["s1"].result.error]]
    /\ UNCHANGED <<now, ticks, ops, syncVars, offHandler>>

\* the sync has returned: if let Err(e) = ... only logs
GpSyncDone ==
    /\ gp.pc = "sync"
    /\ sy["s1"].pc = "done"
    /\ gp' = [gp EXCEPT !.pc = "query",
                        !.sync = IF sy["s1"].result.ok THEN "ok" ELSE "err"]
    /\ UNCHANGED <<now, ticks, ops, syncVars, offHandler>>

\* crud.get_providers(query) answers with the rows: Ok(Json(responses))
GpQueryOk ==
    /\ gp.pc = "query"
    /\ gp' = [gp EXCEPT !.pc = "done", !.queried = "ok",
                        !.result = [ok |-> TRUE,
                                    rows |-> SelectProviders(db["providers"], gp.query)]]
    /\ UNCHANGED <<now, ticks, ops, syncVars, offHandler>>

\* crud.get_providers(query) fails: INTERNAL_SERVER_ERROR with the message
GpQueryFail ==
    /\ gp.pc = "query"
    /\ gp' = [gp EXCEPT !.pc = "done", !.queried = "err",
                        !.result = [ok |-> FALSE, error |-> DatabaseError(MsgDb)]]
    /\ UNCHANGED <<now, ticks, ops, syncVars, offHandler>>

\* the sync that the handler awaits
GpSyncRun ==
    /\ gp.pc = "sync"
    /\ SyRun("s1")

NextProviders ==
    \/ \E d \in SySteps : SyTick(d)
    \/ \E query \in ProvidersQueries : GpCall(query)
    \/ GpShouldOk
    \/ GpShouldFail
    \/ GpNoKey
    \/ GpSyncStart
    \/ GpSyncRun
    \/ GpSyncDone
    \/ GpQueryOk
    \/ GpQueryFail

\* one client of get_providers on a deployment that is fresh or has synced
SpecProviders == InitSyncRuns /\ [][NextProviders]_vars

\* C12: a get_providers request whose sync failed is not failed by it: the
\* handler goes on to query the store and returns the provider rows the
\* store holds; a finished request carries an error only when that final
\* query failed, and then it is the query's DatabaseError.
C12_SyncFailureAbsorbed ==
    /\ (gp.pc \in {"query", "done"} /\ gp.sync = "err") => ~sy["s1"].result.ok
    /\ gp.pc = "done" =>
           /\ gp.queried \in {"ok", "err"}
           /\ gp.queried = "ok" =>
                  /\ gp.result.ok
                  /\ gp.result.rows = SelectProviders(db["providers"], gp.query)
           /\ gp.queried = "err" =>
                  /\ ~gp.result.ok
                  /\ gp.result.error = DatabaseError(MsgDb)

\* a stale store, a sync that failed, and the stored rows served
C12_Witness ==
    /\ gp.pc = "done"
    /\ gp.should_sync = "true"
    /\ gp.sync = "err"
    /\ gp.result.ok
    /\ gp.result.rows # {}
    /\ gp.result.rows = SelectProviders(db["providers"], gp.query)

----------------------------------------------------------------------------
(* SpecBucket: one TokenBucket value driven by arbitrary calls and clocks *)

BCapacities == {1, 10, U32Mod - 1}
BRates == {1, 3}
BAmounts == {0, 1, 10}
BSteps == {1, U32Mod - 1, U32Mod}
BBackSteps == {2}


InitBucket ==
    /\ now = T0
    /\ ticks = 0
    /\ ops = 0
    /\ overflowChecks \in BOOLEAN
    /\ \E c \in BCapacities, r \in BRates :
          \E k \in {0, 1, c} :
             bucket = [tokens |-> k, last_refill |-> T0, capacity |-> c, refill_rate |-> r]
    /\ last = NoCall
    /\ StoreEmpty
    /\ LimiterIdle
    /\ RatesIdle
    /\ SyncIdle

\* the clock moves forward between two calls
BTick(d) ==
    /\ ticks < BMaxTicks
    /\ now' = now + d
    /\ ticks' = ticks + 1
    /\ UNCHANGED <<ops, overflowChecks, bucket, last, offBucket>>

\* the clock is set back between two calls (jitter, NTP step)
BClockBack(d) ==
    /\ ticks < BMaxTicks
    /\ now >= d
    /\ now' = now - d
    /\ ticks' = ticks + 1
    /\ UNCHANGED <<ops, overflowChecks, bucket, last, offBucket>>

\* bucket.try_consume(n)
BTryConsume(n) ==
    LET r == Refill(bucket, now, overflowChecks)
        out == TryConsume(bucket, n, now, overflowChecks)
    IN  /\ ops < BMaxOps
        /\ ops' = ops + 1
        /\ IF out = Panic
           THEN /\ bucket' = bucket
                /\ last' = [op |-> "try_consume", n |-> n, before |-> bucket,
                            refilled |-> Panic, result |-> "panic"]
           ELSE /\ bucket' = out.bucket
                /\ last' = [op |-> "try_consume", n |-> n, before |-> bucket,
                            refilled |-> r,
                            result |-> IF out.allowed THEN "true" ELSE "false"]
        /\ UNCHANGED <<now, ticks, overflowChecks, offBucket>>

\* bucket.refill()
BRefill ==
    LET r == Refill(bucket, now, overflowChecks)
    IN  /\ ops < BMaxOps
        /\ ops' = ops + 1
        /\ bucket' = IF r = Panic THEN bucket ELSE r
        /\ last' = [op |-> "refill", n |-> 0, before |-> bucket, refilled |-> r,
                    result |-> IF r = Panic THEN "panic" ELSE "ok"]
        /\ UNCHANGED <<now, ticks, overflowChecks, offBucket>>

NextBucket ==
    \/ \E d \in BSteps : BTick(d)
    \/ \E d \in BBackSteps : BClockBack(d)
    \/ \E n \in BAmounts : BTryConsume(n)
    \/ BRefill

SpecBucket == InitBucket /\ [][NextBucket]_vars

\* C1: after any sequence of refill and try_consume calls, whatever the
\* amounts and the clock readings, the bucket holds between 0 and capacity
\* tokens.
C1_TokensWithinCapacity ==
    /\ 0 <= bucket.tokens
    /\ bucket.tokens <= bucket.capacity

\* a refill over a very large elapsed time filled the bucket up to capacity
C1_Witness ==
    /\ last.op = "refill"
    /\ last.result = "ok"
    /\ now >= last.before.last_refill + (U32Mod - 1)
    /\ last.before.tokens < bucket.tokens
    /\ bucket.tokens = bucket.capacity

\* C2: try_consume(n) returns true exactly when the refilled token count is
\* at least n; on true the bucket holds the refilled count minus n, on false
\* it holds the refilled count, and the count never drops below zero.
C2_ConsumeExact ==
    (last.op = "try_consume" /\ last.result # "panic") =>
        /\ (last.result = "true") <=> (last.refilled.tokens >= last.n)
        /\ last.result = "true" => bucket.tokens = last.refilled.tokens - last.n
        /\ last.result = "false" => bucket.tokens = last.refilled.tokens
        /\ bucket.tokens >= 0

\* a try_consume that refilled the bucket and then took exactly what was left
C2_Witness ==
    /\ last.op = "try_consume"
    /\ last.result = "true"
    /\ last.n > 0
    /\ last.refilled.tokens > last.before.tokens
    /\ last.refilled.tokens = last.n
    /\ bucket.tokens = 0

\* a step of SpecBucket in which refill ran (alone or inside try_consume)
RefillRan == ops' = ops + 1

\* the whole tokens that accrued since last_refill at the clock reading of
\* the call: elapsed seconds times refill_rate, as unbounded integers
Accrued(b, t) == (t - b.last_refill) * b.refill_rate

\* C17: a refill whose clock reading is not earlier than last_refill adds
\* elapsed seconds * refill_rate tokens clamped to capacity and sets
\* last_refill to the current time when at least one token accrued, and
\* leaves tokens and last_refill unchanged when none accrued.
C17_RefillCreditsElapsed ==
    [][(RefillRan /\ now >= bucket.last_refill) =>
          LET b == bucket
              r == last'.refilled
          IN  /\ r # Panic
              /\ IF Accrued(b, now) >= 1
                 THEN /\ r.tokens = Min(b.tokens + Accrued(b, now), b.capacity)
                      /\ r.last_refill = now
                 ELSE r = b]_vars

\* C18: a refill whose clock reading is earlier than the bucket's
\* last_refill does not fail, adds no token and leaves tokens and
\* last_refill as they were.
C18_ClockBackwardAddsNothing ==
    [][(RefillRan /\ now < bucket.last_refill) =>
          /\ last'.refilled # Panic
          /\ last'.refilled = bucket]_vars

----------------------------------------------------------------------------
(* SpecClassify: the error classification of call_trocador_with_retry *)

\* more texts an upstream error can carry
MsgRateLimitLower == <<"r", "a", "t", "e", " ", "l", "i", "m", "i", "t">>
MsgRateLimitUpper == <<"R", "A", "T", "E", " ", "L", "I", "M", "I", "T">>
MsgTooMany == <<"T", "o", "o", " ", "M", "a", "n", "y", " ", "R", "e", "q", "u", "e", "s", "t", "s">>
MsgTooManyLower == <<"t", "o", "o", " ", "m", "a", "n", "y", " ", "r", "e", "q", "u", "e", "s", "t", "s">>
ClassMsgs ==
    {Msg429, MsgRateLimit, MsgRateLimitLower, MsgRateLimitUpper,
     MsgTooMany, MsgTooManyLower, MsgInvalid, MsgUpstream}

\* the request whose upstream call is classified
ClassQuery == CHOOSE q \in Queries : q.to = "xmr"

\* a get_rates request without a cache
InitClassify ==
    /\ now = T0
    /\ ticks = 0
    /\ ops = 0
    /\ overflowChecks = FALSE
    /\ bucket = None
    /\ last = NoCall
    /\ StoreEmpty
    /\ LimiterIdle
    /\ RatesIdle
    /\ SyncIdle

NextClassify ==
    \/ GrCall(ClassQuery, FALSE)
    \/ GrCacheMiss(TRUE)
    \/ \E quotes \in QuoteLists : GrInvokeOk(quotes)
    \/ \E error_msg \in ClassMsgs : GrInvokeErr(error_msg)
    \/ GrSleep

\* requests whose upstream call fails with any of the texts
SpecClassify == InitClassify /\ [][NextClassify]_vars

UpperToLower ==
    ("A" :> "a") @@ ("B" :> "b") @@ ("C" :> "c") @@ ("D" :> "d") @@ ("E" :> "e") @@
    ("F" :> "f") @@ ("G" :> "g") @@ ("H" :> "h") @@ ("I" :> "i") @@ ("J" :> "j") @@
    ("K" :> "k") @@ ("L" :> "l") @@ ("M" :> "m") @@ ("N" :> "n") @@ ("O" :> "o") @@
    ("P" :> "p") @@ ("Q" :> "q") @@ ("R" :> "r") @@ ("S" :> "s") @@ ("T" :> "t") @@
    ("U" :> "u") @@ ("V" :> "v") @@ ("W" :> "w") @@ ("X" :> "x") @@ ("Y" :> "y") @@
    ("Z" :> "z")

\* the text with its letters in lower case
LowerText(text) ==
    [i \in 1..Len(text) |->
        IF text[i] \in DOMAIN UpperToLower THEN UpperToLower[text[i]] ELSE text[i]]

\* the text indicates rate limiting: it holds "429", "rate limit" or
\* "too many requests", in whatever case the words are written
IndicatesRateLimit(text) ==
    \/ Contains(LowerText(text), <<"4", "2", "9">>)
    \/ Contains(LowerText(text), MsgRateLimitLower)
    \/ Contains(LowerText(text), MsgTooManyLower)

\* the upstream call of the request in progress just failed with retries left
FailedWithRetriesLeft ==
    /\ rt.pc = "call"
    /\ rt.retries < MaxRetries
    /\ Len(rt'.errs) = Len(rt.errs) + 1

\* C21: an upstream error met with retries left is retried (classified
\* retryable) exactly when its text holds "429", "rate limit" or "too many
\* requests"; every other error ends the call.
C21_RetryableIffRateLimitText ==
    [][FailedWithRetriesLeft =>
          ((rt'.pc = "sleep") <=> IndicatesRateLimit(rt'.errs[Len(rt'.errs)]))]_vars

\* the retry loop returned the error of its last call
LoopFailed == LoopReturned /\ rt.calls = Len(rt.errs)

\* the loop gave up: the initial call and all 3 retries failed, each with an
\* error classified as rate limiting
Exhausted ==
    /\ LoopFailed
    /\ Len(rt.errs) = MaxRetries + 1
    /\ \A i \in 1..Len(rt.errs) : IsRateLimit(rt.errs[i])

\* C22 as stated: when the loop gives up after 3 retries that all failed with
\* rate-limit errors, the error returned has a kind other than the kind
\* returned for a non-retryable upstream error (ExternalApiError), and every
\* other failure of the loop returns that ordinary kind.
C22_RateLimitedKind ==
    /\ Exhausted => rt.result.value.kind # "ExternalApiError"
    /\ (LoopFailed /\ ~Exhausted) => rt.result.value.kind = "ExternalApiError"

\* C22, amended: every error call_trocador_with_retry returns, on exhausted
\* retries as well as on a non-retryable failure, is an ExternalApiError that
\* carries the text of the last failure; the two cases differ only in that
\* text.
C22_OneErrorKind ==
    LoopFailed =>
        /\ ~rt.result.ok
        /\ rt.result.value.kind = "ExternalApiError"
        /\ rt.result.value.msg = rt.errs[Len(rt.errs)]
        /\ Exhausted \/ ~IsRateLimit(rt.errs[Len(rt.errs)])

\* the loop gave up after four rate-limit failures written in different ways
C22_Witness ==
    /\ Exhausted
    /\ rt.errs[1] # rt.errs[4]
    /\ rt.result.value.msg = rt.errs[4]
    /\ rt.slept = <<1, 2, 4>>

----------------------------------------------------------------------------
(* SpecSyncFetch: syncs whose upstream list call can fail in either way *)

\* what a failed get_currencies() / get_providers() can say
FetchErrs == {Msg429, MsgUpstream}

NextSyncFetch ==
    \/ \E coll \in Colls : SyCall("s1", coll)
    \/ \E items \in CurrencyLists \cup ProviderLists : SyFetchOk("s1", items)
    \/ \E error_msg \in FetchErrs : SyFetchErr("s1", error_msg)
    \/ SyUpsertCurrency("s1")
    \/ SyProviderLookup("s1")
    \/ SyProviderWrite("s1")
    \/ SyUpsertFail("s1")

SpecSyncFetch == InitSync /\ [][NextSyncFetch]_vars

\* C23: the first upstream list call of a sync that fails with a rate-limit
\* error does not end the sync: the call is made again (up to 3 retries), so
\* a sync returns an upstream error straight from its first call only when
\* the error is not a rate-limit error.
C23_SyncFetchRetried ==
    [][\A p \in SyProcs :
          (sy[p].pc = "fetch" /\ sy'[p].pc = "done" /\ ~sy'[p].result.ok) =>
             ~IsRateLimit(sy'[p].result.error.msg)]_vars

----------------------------------------------------------------------------
(* The item loop of a sync *)

\* the sync of caller p is inside its item loop
InItemLoop(p) == sy[p].pc \in {"upsert", "lookup", "write"}

\* C24: a sync upserts the upstream items in list order, one at a time; the
\* first upsert that fails ends it with a DatabaseError and no count, writes
\* nothing and leaves what the earlier items wrote; nothing is written after
\* the sync returned; a sync that succeeds returns the number of items.
C24_SyncStopsAtFirstFailure ==
    [][/\ \A p \in SyProcs :
            /\ (InItemLoop(p) /\ sy'[p].pc = "done" /\ ~sy'[p].result.ok) =>
                  /\ sy'[p].result.error.kind = "DatabaseError"
                  /\ DOMAIN sy'[p].result = {"ok", "error"}
                  /\ db' = db
                  /\ sy'[p].i = sy[p].i
                  /\ sy[p].synced_count = sy[p].i - 1
            /\ (sy[p].pc # "done" /\ sy'[p].pc = "done" /\ sy'[p].result.ok) =>
                  /\ sy'[p].result.count = Len(sy'[p].items)
                  /\ sy[p].i = Len(sy[p].items)
            /\ (InItemLoop(p) /\ sy'[p].pc # "done") =>
                  sy'[p].i \in {sy[p].i, sy[p].i + 1}
       /\ db' # db =>
            \E p \in SyProcs :
                /\ sy[p].pc \in {"upsert", "write"}
                /\ db' = [db EXCEPT ![sy[p].coll] =
                             UpsertRow(sy[p].coll, @, sy[p].items[sy[p].i], now)]
                /\ sy[p].synced_count = sy[p].i - 1
                /\ sy'[p].pc = "done" \/ sy'[p].i = sy[p].i + 1]_vars

\* a sync of two items on an empty table failed on the second: the row of
\* the first is written and stamped, the second has no row
C24_Witness ==
    /\ sy["s1"].pc = "done"
    /\ ~sy["s1"].result.ok
    /\ sy["s1"].result.error.kind = "DatabaseError"
    /\ Len(sy["s1"].items) = 2
    /\ sy["s1"].i = 2
    /\ Cardinality(db[sy["s1"].coll]) = 1
    /\ \A r \in db[sy["s1"].coll] :
          /\ Listed(sy["s1"].coll, <<sy["s1"].items[1]>>, r)
          /\ r.last_synced_at >= sy["s1"].start

\* C25: when a sync returns an error, because the upstream call failed or
\* because an upsert failed after other items were written, the cursor of
\* its collection, MAX(last_synced_at), is what it was when the sync was
\* entered, and so is the answer of the staleness check.
C25_FailedSyncKeepsCursor ==
    \A p \in SyProcs :
        (sy[p].pc = "done" /\ ~sy[p].result.ok) =>
            MaxLastSynced(db[sy[p].coll]) = sy[p].cursor

----------------------------------------------------------------------------
(* SpecUpsert: currency syncs on a table whose rows were edited since *)

\* the btc row as an earlier sync wrote it and as it may stand now: renamed,
\* deactivated, or with its extra-id flag changed
StoredBtc ==
    { [symbol |-> "btc", name |-> n, network |-> "Mainnet", is_active |-> a,
       logo_url |-> "old.png", requires_extra_id |-> x, min_amount |-> 2,
       max_amount |-> 50, last_synced_at |-> T0] :
         n \in {"Bitcoin", "BTC"}, a \in BOOLEAN, x \in BOOLEAN }

\* a row of a currency the upstream does not list
StoredEth ==
    [symbol |-> "eth", name |-> "Ethereum", network |-> "Mainnet", is_active |-> FALSE,
     logo_url |-> "eth.png", requires_extra_id |-> FALSE, min_amount |-> 3,
     max_amount |-> 30, last_synced_at |-> T0]

StoredCurrencies ==
    {{}} \cup {{b} : b \in StoredBtc} \cup {{b, StoredEth} : b \in StoredBtc}

InitUpsert ==
    /\ now = T0
    /\ ticks = 0
    /\ ops = 0
    /\ overflowChecks = FALSE
    /\ bucket = None
    /\ last = NoCall
    /\ StoreEmpty
    /\ LimiterIdle
    /\ RatesIdle
    /\ sy = [p \in SyProcs |-> NoSync]
    /\ chk = NoCall
    /\ gp = NoHandler
    /\ hist = [c \in Colls |-> NoHistory]
    /\ \E rows \in StoredCurrencies : db = [currencies |-> rows, providers |-> {}]

NextUpsert ==
    \/ \E d \in SySteps : SyTick(d)
    \/ SyCall("s1", "currencies")
    \/ \E items \in CurrencyLists : SyFetchOk("s1", items)
    \/ SyFetchErr("s1", MsgUpstream)
    \/ SyUpsertCurrency("s1")
    \/ SyUpsertFail("s1")

SpecUpsert == InitUpsert /\ [][NextUpsert]_vars

\* the row stands for the currency of the upstream item
SameKey(r, c) == r.symbol = c.ticker /\ r.network = c.network

\* caller p's upsert of its current item is carried out in this step
Upserted(p) ==
    /\ sy[p].pc = "upsert"
    /\ sy'[p] # sy[p]
    /\ ~(sy'[p].pc = "done" /\ ~sy'[p].result.ok)

\* C26: an upsert of a currency whose (symbol, network) is in the table
\* creates no row, sets name, logo_url, min_amount, max_amount to the
\* upstream values and last_synced_at to the current time in that row, keeps
\* its symbol, network, is_active and requires_extra_id, and leaves every
\* other row as it is.
C26_UpsertExistingFrame ==
    [][\A p \in SyProcs :
          LET c == sy[p].items[sy[p].i]
              old == db["currencies"]
              new == db'["currencies"]
          IN  (Upserted(p) /\ \E r \in old : SameKey(r, c)) =>
                 /\ Cardinality(new) = Cardinality(old)
                 /\ \A r \in old :
                       IF SameKey(r, c)
                       THEN \E r2 \in new :
                               /\ DOMAIN r2 = DOMAIN r
                               /\ r2.symbol = r.symbol
                               /\ r2.network = r.network
                               /\ r2.is_active = r.is_active
                               /\ r2.requires_extra_id = r.requires_extra_id
                               /\ r2.name = c.name
                               /\ r2.logo_url = c.image
                               /\ r2.min_amount = c.minimum
                               /\ r2.max_amount = c.maximum
                               /\ r2.last_synced_at = now
                       ELSE r \in new]_vars

\* the deactivated btc row that asks for an extra id was upserted from an
\* upstream item that does not: it is still inactive, still asks for the
\* id, and carries the upstream name, logo and limits
C26_Witness ==
    /\ sy["s1"].pc = "done"
    /\ sy["s1"].result.ok
    /\ sy["s1"].items # <<>>
    /\ ~sy["s1"].items[1].memo
    /\ StoredEth \in db["currencies"]
    /\ \E r \in db["currencies"] :
          /\ SameKey(r, sy["s1"].items[1])
          /\ ~r.is_active
          /\ r.requires_extra_id
          /\ r.logo_url = sy["s1"].items[1].image
          /\ r.max_amount = sy["s1"].items[1].maximum
          /\ r.last_synced_at > T0

----------------------------------------------------------------------------
(* SpecSyncRace: two provider syncs at once, src/modules/swap/crud.rs *)

\* what the INSERT reports when the id is already in the table
MsgDuplicate == <<"D", "u", "p", "l", "i", "c", "a", "t", "e", " ", "e", "n", "t", "r", "y">>

\* the list both syncs are answered with
RaceList == CHOOSE items \in ProviderLists : Len(items) = 2

\* upsert_provider_from_trocador: the lookup found no row, but a row with the
\* id (the slug) has been inserted since: the INSERT fails on the primary key
\* and `?` returns Err(DatabaseError)
SyProviderInsertDup(p) ==
    /\ sy[p].pc = "write"
    /\ sy[p].existing = None
    /\ \E r \in db["providers"] : r.id = Slug[sy[p].items[sy[p].i].name]
    /\ SyReturnErr(p, DatabaseError(MsgDuplicate))
    /\ UNCHANGED <<now, ticks, ops, db, chk, offSync>>

\* two requests found the providers stale and both sync; the statements fail
\* for no other reason than the data
NextSyncRace ==
    \E p \in SyProcs :
        \/ SyCall(p, "providers")
        \/ SyFetchOk(p, RaceList)
        \/ SyProviderLookup(p)
        \/ SyProviderWrite(p)
        \/ SyProviderInsertDup(p)

SpecSyncRace == InitSync /\ [][NextSyncRace]_vars

\* C27: when two provider syncs with the same upstream list have both
\* returned, whatever the interleaving of their lookups and writes, both
\* returned Ok and the table holds exactly one row per upstream provider,
\* with the content one sync alone writes.
C27_ConcurrentSyncsSafe ==
    (\A p \in SyProcs : sy[p].pc = "done" /\ sy[p].items = RaceList) =>
        /\ \A p \in SyProcs : sy[p].result.ok
        /\ Cardinality(db["providers"]) = Len(RaceList)
        /\ Content(db["providers"]) = Content(SyncRows("providers", {}, RaceList, now))

----------------------------------------------------------------------------
(* SpecSeqClock: a sequential caller of try_acquire whose wall clock can be
   set back *)

LBackSteps == {2}

\* the wall clock is set back between two calls (NTP step)
LClockBack(d, maxTicks) ==
    /\ ticks < maxTicks
    /\ now >= d
    /\ now' = now - d
    /\ ticks' = ticks + 1
    /\ UNCHANGED <<ops, overflowChecks, store, limVars, offLimiter>>

NextSeqClock ==
    \/ \E d \in SSteps : LTick(d, SeqMaxTicks)
    \/ \E d \in LBackSteps : LClockBack(d, SeqMaxTicks)
    \/ AcquireStep("p1", {"trocador"}, SAmounts, SeqMaxOps)
    \/ AcquireFailStep("p1")

SpecSeqClock == InitLimiter /\ [][NextSeqClock]_vars

\* the tokens of the grants i..j of a log
RECURSIVE TokensGranted(_, _, _)
TokensGranted(log, i, j) ==
    IF i > j THEN 0 ELSE log[i][2] + TokensGranted(log, i + 1, j)

\* seconds between two clock readings
Distance(a, b) == IF a <= b THEN b - a ELSE a - b

\* C28: for one sequential caller and the default bucket, the tokens granted
\* by any run of consecutive grants on a key are at most capacity plus
\* refill_rate times the seconds between the call times of the first and
\* the last of them.
C28_GrantsBounded ==
    \A k \in Keys :
        \A i \in 1..Len(burst[k].log) : \A j \in i..Len(burst[k].log) :
            TokensGranted(burst[k].log, i, j) <=
                DefaultCapacity
                  + Distance(burst[k].log[i][1], burst[k].log[j][1]) * DefaultRefillRate

----------------------------------------------------------------------------
(* The last_refill of the stored bucket under concurrent callers *)

\* last_refill of the bucket a store holds under the key
StoredLastRefill(st, key) == FromJson(st[BucketKey(key)].json).last_refill

----------------------------------------------------------------------------
(* What a get_rates cache hit returns *)

\* the request returned the cached response without calling the upstream
CacheHitReturned ==
    /\ rt.pc = "done"
    /\ rt.read = "ok"
    /\ rt.calls = 0
    /\ rt.result # None
    /\ rt.result.ok

\* C30: a get_rates cache hit returns the response a fresh fetch for the
\* request would have built from the upstream quotes the entry was built
\* from, whichever request wrote the entry: every request parameter that
\* affects the response (rate_type included) is part of the cache key.
C30_HitEqualsFreshBuild ==
    CacheHitReturned =>
        \A quotes \in QuoteLists, writer \in Queries :
            rt.seen.json = RatesToJson(BuildResponse(quotes, writer))
                => rt.result.value = BuildResponse(quotes, rt.query)

====
